---- MODULE Spec2Model ----
(***************************************************************************)
(* A model of the data pipeline of app.py: the schema-tolerant reader      *)
(* (_safe_read_csv), the merge engine and the derived field of load_data,  *)
(* the entry of main, and the per-suburb time-series queries               *)
(* (create_price_chart, compute_yoy_growth, render_yoy_tab).               *)
(*                                                                         *)
(* A DataFrame is a record [columns, rows]: columns is the set of column   *)
(* names and rows the sequence of rows, each a function from columns to    *)
(* cell values.  Column order is not modelled: no code modelled here reads *)
(* it.  A CSV file is a record [status, header, rows]; status is "absent"  *)
(* (open raises FileNotFoundError), "unreadable" (any other failure of     *)
(* pd.read_csv: PermissionError, EmptyDataError, ParserError) or "ok".     *)
(* The content of a file is chosen when the program reads it: every file   *)
(* is read in one step of load_data and never again.                       *)
(*                                                                         *)
(* A Python exception is modelled as a result record [exc, value]: exc is  *)
(* "" for a normal return.                                                 *)
(***************************************************************************)
EXTENDS Integers, Sequences, FiniteSets, TLC

VARIABLES
    pc,        \* position of the script run (load_data, then main)
    master,    \* load_data's local `master` (EmptyFrame before it is read)
    df,        \* load_data's `df`, then main's `df`
    ts,        \* load_data's `ts`, then main's `ts`
    last,      \* the read most recently made: [src, file, frame]
    exc,       \* the uncaught exception that ended the run: [type, at]
    ui,        \* the messages shown so far (st.error / st.info)
    selected,  \* main's selected_suburb ("" before the selectbox is read)
    chart,     \* result of create_price_chart for `selected`
    yoy,       \* result of compute_yoy_growth for `selected`
    cards,     \* the Growth Summary cards render_yoy_tab has shown
    session,   \* st.session_state: [map_suburb, last_click_id]
    widgets,   \* what the browser holds: [search_input, selectbox, last_clicked]
    top,       \* the leaderboards of the landing dashboard: [growth, risk]
    row,       \* the record main hands to render_suburb_report
    reruns     \* the st.rerun() calls made since the user last acted

vars == <<pc, master, df, ts, last, exc, ui, selected, chart, yoy, cards,
          session, widgets, top, row, reruns>>

----------------------------------------------------------------------------
(* Bounds of the model *)

\* rows of a CSV file of an optional source
MaxRows == 2
\* rows (observations) of the time-series file
MaxObs == 2
\* rows (observations) of the time-series files of the growth summary
MaxPoints == 3
\* rows of the small master files of the leaderboards
MaxLeaders == 3
\* rows of the large master files of the leaderboards
MaxSuburbs == 12

----------------------------------------------------------------------------
(* Values *)

\* pandas' missing marker (np.nan), distinct from every cell value used
NaN == -9999

\* Python's None as the value of the parameter usecols
None == {"<None>"}

EmptyFrame == [columns |-> {}, rows |-> <<>>]

\* A plausible slip: a frame with columns is not empty, with or without rows
empty_without_columns(frame) == frame.columns = {}

\* DataFrame.empty: some axis has length 0
empty(frame) == frame.columns = {} \/ frame.rows = <<>>

Ok(v) == [exc |-> "", value |-> v]
Raise(e) == [exc |-> e, value |-> EmptyFrame]

NoExc == [type |-> "", at |-> ""]

\* Python's None as the value of st.session_state.map_suburb
NoSuburb == "<None>"
\* Python's None as the value of st.session_state.last_click_id
NoClickId == <<>>
\* st.session_state before main has run: no key is in it
NoSession == <<>>

\* st_folium's last_clicked before any click
NoClick == <<>>
\* the selectbox before it was ever drawn
NoSelectbox == [options |-> <<>>, index |-> 0, value |-> ""]
\* what the browser holds before the first run: an empty search box, no click
NoWidgets == [search_input |-> <<>>, selectbox |-> NoSelectbox, last_clicked |-> NoClick]

\* no leaderboard drawn
NoBoard == [shown |-> FALSE, rows |-> <<>>]
NoTop == [growth |-> NoBoard, risk |-> NoBoard]

\* no record handed to render_suburb_report
NoData == [Suburb |-> ""]

Range(s) == {s[i] : i \in DOMAIN s}

\* frame[cols]: the frame restricted to the columns cols (cols within it)
Project(frame, cols) ==
    [columns |-> cols,
     rows |-> [i \in DOMAIN frame.rows |-> [c \in cols |-> frame.rows[i][c]]]]

\* the distinct values of the key column (df['Suburb'].unique(), as a set)
KeySet(frame) ==
    IF "Suburb" \in frame.columns
    THEN {frame.rows[i]["Suburb"] : i \in DOMAIN frame.rows}
    ELSE {}

----------------------------------------------------------------------------
(* Column lists of load_data *)

_MASTER_CORE_COLS ==
    {"Suburb", "Avg_Price_All_Time", "Median_Price_All_Time", "Min_Price_Ever",
     "Max_Price_Ever", "Price_Volatility", "Quarter_Count", "Current_Price_2025",
     "First_Price_2019", "Price_Growth_Amount", "Price_Growth_Percent",
     "Total_Crime_Count", "Crime_OFFENCES_AGAINST_PROPERTY",
     "Crime_OFFENCES_AGAINST_THE_PERSON", "Property_Crime_Count",
     "Person_Crime_Count", "G01_Population_Total",
     "G02_Median_age_persons", "G02_Median_mortgage_repay_monthly",
     "G02_Median_tot_prsnl_inc_weekly", "G02_Median_rent_weekly",
     "G02_Median_tot_fam_inc_weekly", "G02_Average_num_psns_per_bedroom",
     "G02_Median_tot_hhd_inc_weekly", "G02_Average_household_size"}

_RENTAL_COLS ==
    {"Suburb", "Census_Rent_2021", "Fair_Rent_2025", "Fair_House_Rent_2025",
     "Fair_Unit_Rent_2025", "Estimated_Actual_Rent_2025", "Actual_House_Rent_2025",
     "Actual_Unit_Rent_2025", "Greediness_Percent", "Fair_House_Yield",
     "Actual_House_Yield", "Actual_Unit_Yield", "Affordability_Category",
     "Affordability_Ratio", "Individual_Affordability", "Household_Affordability"}

_CULTURE_COLS ==
    {"Suburb", "G01_Population_Total", "Current_Price_2025",
     "Indian_Population", "Indian_Percent", "Chinese_Population", "Chinese_Percent",
     "Vietnamese_Population", "Vietnamese_Percent", "Italian_Population",
     "Italian_Percent", "Greek_Population", "Greek_Percent",
     "Cultural_Diversity_Index"}

_TS_COLS == {"Suburb", "Median_Price", "Period", "Quarter", "Year"}

\* the optional sources, in the order load_data merges them
Optional == <<"preds", "risk", "rental", "culture", "crime_off">>

----------------------------------------------------------------------------
(* Reading *)

\* pd.read_csv(path, usecols=usecols); usecols = None reads every column
read_csv(path, usecols) ==
    IF path.status = "absent" THEN Raise("FileNotFoundError")
    ELSE IF path.status # "ok" THEN Raise("ReadError")
    ELSE IF usecols = None
         THEN Ok([columns |-> path.header, rows |-> path.rows])
         ELSE Ok(Project([columns |-> path.header, rows |-> path.rows],
                         path.header \cap usecols))

\* pd.read_csv(path, nrows=0).columns.tolist()
read_header(path) ==
    IF path.status = "absent" THEN Raise("FileNotFoundError")
    ELSE IF path.status # "ok" THEN Raise("ReadError")
    ELSE Ok([columns |-> path.header, rows |-> <<>>])

\* A plausible slip: the requested column list is not intersected with the header
safe_read_csv_unrestricted(path, usecols) ==
    LET r == read_csv(path, None)
    IN  IF r.exc = "FileNotFoundError" THEN Ok(EmptyFrame) ELSE r

\* A plausible slip: no except clause, FileNotFoundError propagates
safe_read_csv_uncaught(path, usecols) ==
    IF usecols # None
    THEN LET h == read_header(path)
         IN  IF h.exc # "" THEN h
             ELSE LET valid_cols == {c \in usecols : c \in h.value.columns}
                  IN  IF valid_cols = {} THEN Ok(EmptyFrame)
                      ELSE read_csv(path, valid_cols)
    ELSE read_csv(path, None)

_safe_read_csv(path, usecols) ==
    LET r == IF usecols # None
             THEN LET h == read_header(path)
                  IN  IF h.exc # "" THEN h
                      ELSE LET valid_cols == {c \in usecols : c \in h.value.columns}
                           IN  IF valid_cols = {} THEN Ok(EmptyFrame)
                               ELSE read_csv(path, valid_cols)
             ELSE read_csv(path, None)
    IN  IF r.exc = "FileNotFoundError" THEN Ok(EmptyFrame) ELSE r

----------------------------------------------------------------------------
(* Merging *)

RECURSIVE Flatten(_)
Flatten(ss) == IF ss = <<>> THEN <<>> ELSE Head(ss) \o Flatten(Tail(ss))

\* the name pandas gives a non-key column that both operands of a merge hold
Suffixed(c, overlap, sfx) == IF c \in overlap THEN c \o sfx ELSE c

\* left.merge(right, on='Suburb', how='outer'): a plausible slip for how='left';
\* it differs from the left join by the rows of right whose key left lacks
merge_outer(left, right) ==
    IF ~("Suburb" \in left.columns /\ "Suburb" \in right.columns)
    THEN Raise("KeyError")
    ELSE LET cols == left.columns \cup right.columns
             Matches(l) == SelectSeq(right.rows, LAMBDA r : r["Suburb"] = l["Suburb"])
             Join(l, r) == [c \in cols |-> IF c \in left.columns THEN l[c] ELSE r[c]]
             Pad(l) == [c \in cols |-> IF c \in left.columns THEN l[c] ELSE NaN]
             PadR(r) == [c \in cols |-> IF c \in right.columns THEN r[c] ELSE NaN]
             RowsOf(l) == IF Matches(l) = <<>> THEN <<Pad(l)>>
                          ELSE [j \in DOMAIN Matches(l) |-> Join(l, Matches(l)[j])]
             Extra == SelectSeq(right.rows, LAMBDA r : r["Suburb"] \notin KeySet(left))
         IN  Ok([columns |-> cols,
                 rows |-> Flatten([i \in DOMAIN left.rows |-> RowsOf(left.rows[i])])
                          \o [j \in DOMAIN Extra |-> PadR(Extra[j])]])

\* left.merge(right, on='Suburb', how='left'): every row of left, in order, once
\* per row of right with the same key (in right's order), or once with NaN in
\* right's columns when right has no such row.  A non-key column held by both is
\* renamed c_x (left's) and c_y (right's).  KeyError when an operand lacks the key.
merge(left, right) ==
    IF ~("Suburb" \in left.columns /\ "Suburb" \in right.columns)
    THEN Raise("KeyError")
    ELSE LET overlap == (left.columns \cap right.columns) \ {"Suburb"}
             lname(c) == Suffixed(c, overlap, "_x")
             rname(c) == Suffixed(c, overlap, "_y")
             rcols == right.columns \ {"Suburb"}
             cols == {lname(c) : c \in left.columns} \cup {rname(c) : c \in rcols}
             lsrc(n) == CHOOSE c \in left.columns : lname(c) = n
             rsrc(n) == CHOOSE c \in rcols : rname(c) = n
             isL(n) == \E c \in left.columns : lname(c) = n
             Matches(l) == SelectSeq(right.rows, LAMBDA r : r["Suburb"] = l["Suburb"])
             Join(l, r) == [n \in cols |-> IF isL(n) THEN l[lsrc(n)] ELSE r[rsrc(n)]]
             Pad(l) == [n \in cols |-> IF isL(n) THEN l[lsrc(n)] ELSE NaN]
             RowsOf(l) == IF Matches(l) = <<>> THEN <<Pad(l)>>
                          ELSE [j \in DOMAIN Matches(l) |-> Join(l, Matches(l)[j])]
         IN  Ok([columns |-> cols,
                 rows |-> Flatten([i \in DOMAIN left.rows |-> RowsOf(left.rows[i])])])

\* A plausible slip: every column of the incoming source is merged
merge_cols_all(incoming, table) == incoming.columns

\* [c for c in incoming.columns if c not in df.columns or c == 'Suburb']
merge_cols(incoming, table) ==
    {c \in incoming.columns : c \notin table.columns \/ c = "Suburb"}

----------------------------------------------------------------------------
(* Input files *)

AbsentFile == [status |-> "absent", header |-> {}, rows |-> <<>>]
UnreadableFile == [status |-> "unreadable", header |-> {}, rows |-> <<>>]

\* position of a source in the merge order (master first)
SrcIndex(s) == IF s = "master" THEN 0 ELSE CHOOSE i \in DOMAIN Optional : Optional[i] = s

\* the content of every non-key cell of row i of source s: it names its origin,
\* so that two sources never agree on a value by accident
Tag(s, i) == 10 * SrcIndex(s) + i

\* a readable CSV file of source s with header h and one row per key of ks
CsvFile(s, h, ks) ==
    [status |-> "ok", header |-> h,
     rows |-> [i \in DOMAIN ks |-> [c \in h |-> IF c = "Suburb" THEN ks[i] ELSE Tag(s, i)]]]

SeqsUpTo(S, n) == UNION {[1..k -> S] : k \in 0..n}

\* the master file: missing, unreadable, header only, or one row per suburb "A"
\* and "B"
MasterFiles ==
    {AbsentFile, UnreadableFile}
    \cup {CsvFile("master", {"Suburb", "Current_Price_2025"}, ks) : ks \in {<<>>, <<"A", "B">>}}

\* the headers an optional file may have: one column, with or without the key.
\* Current_Price_2025 is a column of the master (and of _CULTURE_COLS, not of
\* _RENTAL_COLS), Census_Rent_2021 a column of _RENTAL_COLS only
OptionalHeaders ==
    {{"Suburb", "Current_Price_2025"}, {"Suburb", "Census_Rent_2021"},
     {"Current_Price_2025"}, {"Census_Rent_2021"}}

\* the files of optional source s: missing, unreadable, or any header with up to
\* MaxRows rows whose keys are a suburb of the master ("A") or not ("C")
OptionalFiles(s) ==
    {AbsentFile, UnreadableFile}
    \cup {CsvFile(s, h, ks) : h \in OptionalHeaders, ks \in SeqsUpTo({"A", "C"}, MaxRows)}

\* a crime count: missing, none, some
Counts == {NaN, 0, 3}
\* a population: missing, none, negative, some
Populations == {NaN, 0, -1000, 1000}

\* the headers of the master files of the derived field: both dependency
\* columns of Crime_Rate_Per_1000, or one of them
DeriveHeaders ==
    {{"Suburb", "Current_Price_2025", "Total_Crime_Count", "G01_Population_Total"},
     {"Suburb", "Current_Price_2025", "Total_Crime_Count"},
     {"Suburb", "Current_Price_2025", "G01_Population_Total"}}

\* one row of such a master file
DeriveRow(h, suburb, i, count, population) ==
    [c \in h |-> CASE c = "Suburb" -> suburb
                  [] c = "Total_Crime_Count" -> count
                  [] c = "G01_Population_Total" -> population
                  [] OTHER -> Tag("master", i)]

\* the master files of the derived field: suburbs "A" and "B" with every
\* count and population
DeriveMasterFiles ==
    {[status |-> "ok", header |-> h,
      rows |-> <<DeriveRow(h, "A", 1, ca, pa), DeriveRow(h, "B", 2, cb, pb)>>] :
        h \in DeriveHeaders, ca \in Counts, cb \in Counts,
        pa \in Populations, pb \in Populations}

\* the risk files of the derived field: missing, or supplying
\* Crime_Rate_Per_1000 for suburb "A", or for both suburbs
DeriveRiskFiles ==
    {AbsentFile}
    \cup {CsvFile("risk", {"Suburb", "Crime_Rate_Per_1000"}, ks) : ks \in {<<"A">>, <<"A", "B">>}}

\* the culture files of the derived field: missing, or supplying
\* G01_Population_Total for suburb "A"
DeriveCultureFiles ==
    {AbsentFile,
     [status |-> "ok", header |-> {"Suburb", "G01_Population_Total"},
      rows |-> <<[Suburb |-> "A", G01_Population_Total |-> 1000]>>]}

----------------------------------------------------------------------------
(* Period labels: sequences of characters *)

Digits == <<"0", "1", "2", "3", "4", "5", "6", "7", "8", "9">>

IsDigit(ch) == \E d \in DOMAIN Digits : Digits[d] = ch
DigitVal(ch) == (CHOOSE d \in DOMAIN Digits : Digits[d] = ch) - 1

\* Series.str.extract(r'(\d{4})') then pd.to_numeric: the leftmost run of four
\* digits as a number, NaN when the label has none
extract_year(label) ==
    LET starts == {i \in 1..(Len(label) - 3) : \A k \in 0..3 : IsDigit(label[i + k])}
    IN  IF starts = {} THEN NaN
        ELSE LET i == CHOOSE m \in starts : \A n \in starts : m <= n
             IN  1000 * DigitVal(label[i]) + 100 * DigitVal(label[i + 1])
                 + 10 * DigitVal(label[i + 2]) + DigitVal(label[i + 3])

\* Series.str.extract(r'Q(\d)') then pd.to_numeric: the digit after the leftmost
\* "Q" that a digit follows, NaN when the label has none
extract_qnum(label) ==
    LET starts == {i \in 1..(Len(label) - 1) : label[i] = "Q" /\ IsDigit(label[i + 1])}
    IN  IF starts = {} THEN NaN
        ELSE LET i == CHOOSE m \in starts : \A n \in starts : m <= n
             IN  DigitVal(label[i + 1])

Label_2023Q2 == <<"2", "0", "2", "3", "Q", "2">>
Label_2024Q1 == <<"2", "0", "2", "4", "Q", "1">>
Label_Early2023 == <<"E", "a", "r", "l", "y", " ", "2", "0", "2", "3">>
Label_Q3 == <<"Q", "3">>
Label_2023Q7 == <<"2", "0", "2", "3", "Q", "7">>

PeriodLabels == {Label_2023Q2, Label_2024Q1, Label_Early2023, Label_Q3, Label_2023Q7}

\* prices are even, so that the median of two of them is a whole number
Prices == {NaN, 0, 4}

TsHeaders == SUBSET {"Suburb", "Period", "Median_Price"} \ {{}}

TsRow(h, o) ==
    [c \in h |-> IF c = "Suburb" THEN o[1] ELSE IF c = "Period" THEN o[2] ELSE o[3]]

\* the time-series files: missing, or any header with up to MaxObs observations
TsFiles ==
    {AbsentFile}
    \cup {[status |-> "ok", header |-> h, rows |-> [i \in DOMAIN os |-> TsRow(h, os[i])]] :
            h \in TsHeaders,
            os \in SeqsUpTo({"A", "B"} \X PeriodLabels \X Prices, MaxObs)}

\* two time-series files for the runs that vary the other sources
TsFilesSmall ==
    {AbsentFile,
     [status |-> "ok", header |-> {"Suburb", "Period", "Median_Price"},
      rows |-> <<TsRow({"Suburb", "Period", "Median_Price"}, <<"A", Label_2023Q2, 4>>)>>]}

Label_2025Q4 == <<"2", "0", "2", "5", "Q", "4">>
Label_2019Q1 == <<"2", "0", "1", "9", "Q", "1">>
Label_2025Q1 == <<"2", "0", "2", "5", "Q", "1">>

\* labels of three years
AnnualLabels == {Label_2023Q2, Label_2024Q1, Label_2025Q4}

\* a missing price, a negative one, zero and a positive one
AnnualPrices == {NaN, -4, 0, 4}

\* a series of one observation a year: 500000 in 2019, 650000 in 2025
TsExample ==
    [status |-> "ok", header |-> {"Suburb", "Period", "Median_Price"},
     rows |-> <<TsRow({"Suburb", "Period", "Median_Price"}, <<"A", Label_2019Q1, 500000>>),
                TsRow({"Suburb", "Period", "Median_Price"}, <<"A", Label_2025Q1, 650000>>)>>]

\* the time-series files of the growth summary: the three columns, up to
\* MaxPoints observations of suburb A or the one of suburb B, in every order
AnnualFiles ==
    {TsExample}
    \cup {[status |-> "ok", header |-> {"Suburb", "Period", "Median_Price"},
           rows |-> [i \in DOMAIN os |-> TsRow({"Suburb", "Period", "Median_Price"}, os[i])]] :
            os \in SeqsUpTo(({"A"} \X AnnualLabels \X AnnualPrices)
                            \cup {<<"B", Label_2024Q1, 4>>}, MaxPoints)}

----------------------------------------------------------------------------
(* Time-series queries *)

\* results of a query: an exception, None, or a table (its rows)
QRaise(e) == [exc |-> e, none |-> TRUE, rows |-> <<>>]
QNone == [exc |-> "", none |-> TRUE, rows |-> <<>>]
QOk(rows) == [exc |-> "", none |-> FALSE, rows |-> rows]

RECURSIVE SortedSeqOf(_)
\* the numbers of a finite set in ascending order
SortedSeqOf(S) ==
    IF S = {} THEN <<>>
    ELSE LET m == CHOOSE x \in S : \A y \in S : x <= y
         IN  <<m>> \o SortedSeqOf(S \ {m})

RECURSIVE SortNumbers(_)
\* a sequence of numbers in ascending order, duplicates kept
SortNumbers(s) ==
    IF s = <<>> THEN <<>>
    ELSE LET m == CHOOSE i \in DOMAIN s : \A j \in DOMAIN s : s[i] <= s[j]
         IN  <<s[m]>> \o SortNumbers([k \in 1..(Len(s) - 1) |-> IF k < m THEN s[k] ELSE s[k + 1]])

\* A plausible slip: the lower middle value, never the mean of two
MedianLowerMiddle(values) ==
    SortNumbers(values)[(Len(values) + 1) \div 2]

\* Series.median(): the middle value, or the mean of the two middle values
Median(values) ==
    LET v == SortNumbers(values)
        n == Len(v)
    IN  IF n % 2 = 1 THEN v[(n + 1) \div 2]
        ELSE (v[n \div 2] + v[n \div 2 + 1]) \div 2

\* a percentage (num / den), or missing
NoPct == [nan |-> TRUE, num |-> 0, den |-> 1]
Pct(num, den) == [nan |-> FALSE, num |-> num, den |-> den]

\* A plausible slip: the infinite percentage of a zero base is kept
pct_change_keeping_inf(current, previous) ==
    Pct((current - previous) * 100, previous)

\* A plausible slip: the change is taken from the current value to the previous
pct_change_reversed(current, previous) ==
    IF previous = 0 THEN NoPct
    ELSE Pct((previous - current) * 100, previous)

\* lines 873-876: pct_change() * 100 of one value on the one before, the
\* infinite result of a zero base (and the NaN of 0 / 0) replaced by NaN
pct_change(current, previous) ==
    IF previous = 0 THEN NoPct
    ELSE Pct((current - previous) * 100, previous)

\* ts[ts['Suburb'] == suburb_name]
RowsOfSuburb(table, suburb_name) ==
    SelectSeq(table.rows, LAMBDA r : r["Suburb"] = suburb_name)

\* A plausible slip: the deltas are taken against the calendar year before,
\* and are missing when that year has no median
AnnualOfCalendarYears(rows) ==
    LET years == SortedSeqOf({extract_year(rows[i]["Period"]) : i \in DOMAIN rows})
        PricesOf(y) ==
            LET of_y == SelectSeq(rows, LAMBDA r : extract_year(r["Period"]) = y)
            IN  [i \in DOMAIN of_y |-> of_y[i]["Median_Price"]]
        med == [k \in DOMAIN years |-> Median(PricesOf(years[k]))]
        Adjacent(k) == k > 1 /\ years[k - 1] = years[k] - 1
    IN  [k \in DOMAIN years |->
            [Year |-> years[k],
             Median_Price |-> med[k],
             YoY_Growth_Amount |-> IF Adjacent(k) THEN med[k] - med[k - 1] ELSE NaN,
             YoY_Growth_Pct |-> IF Adjacent(k) THEN pct_change(med[k], med[k - 1]) ELSE NoPct]]

\* the rows of yearly medians with their deltas, from the rows that have a year
\* and a price (lines 863-876)
AnnualOf(rows) ==
    LET years == SortedSeqOf({extract_year(rows[i]["Period"]) : i \in DOMAIN rows})
        PricesOf(y) ==
            LET of_y == SelectSeq(rows, LAMBDA r : extract_year(r["Period"]) = y)
            IN  [i \in DOMAIN of_y |-> of_y[i]["Median_Price"]]
        med == [k \in DOMAIN years |-> Median(PricesOf(years[k]))]
    IN  [k \in DOMAIN years |->
            [Year |-> years[k],
             Median_Price |-> med[k],
             YoY_Growth_Amount |-> IF k = 1 THEN NaN ELSE med[k] - med[k - 1],
             YoY_Growth_Pct |-> IF k = 1 THEN NoPct ELSE pct_change(med[k], med[k - 1])]]

compute_yoy_growth(table, suburb_name) ==
    IF "Suburb" \notin table.columns THEN QRaise("KeyError")
    ELSE LET suburb_ts == RowsOfSuburb(table, suburb_name)
         IN  IF suburb_ts = <<>> THEN QNone
             ELSE IF "Period" \notin table.columns THEN QRaise("KeyError")
             ELSE IF "Median_Price" \notin table.columns THEN QRaise("KeyError")
             ELSE QOk(AnnualOf(SelectSeq(suburb_ts,
                        LAMBDA r : extract_year(r["Period"]) # NaN
                                   /\ r["Median_Price"] # NaN)))

RECURSIVE InsertByPeriod(_, _)
\* r put into the sorted sequence s after every row that is not later than it
InsertByPeriod(s, r) ==
    IF s = <<>> THEN <<r>>
    ELSE LET h == Head(s)
         IN  IF h._year < r._year \/ (h._year = r._year /\ h._qnum <= r._qnum)
             THEN <<h>> \o InsertByPeriod(Tail(s), r)
             ELSE <<r>> \o s

\* A plausible slip: the rows are left in input order
SortByPeriodUnsorted(s) == s

RECURSIVE SortByPeriod(_)
\* sort_values(['_year', '_qnum']): ascending, rows of one period in input order
SortByPeriod(s) ==
    IF s = <<>> THEN <<>>
    ELSE InsertByPeriod(SortByPeriod(SubSeq(s, 1, Len(s) - 1)), s[Len(s)])

\* the rows the figure plots, or None
create_price_chart(table, suburb_name) ==
    IF "Suburb" \notin table.columns THEN QRaise("KeyError")
    ELSE LET suburb_ts == RowsOfSuburb(table, suburb_name)
         IN  IF suburb_ts = <<>> THEN QNone
             ELSE IF "Period" \notin table.columns THEN QRaise("KeyError")
             ELSE IF (\A i \in DOMAIN suburb_ts : extract_year(suburb_ts[i]["Period"]) = NaN)
                     \/ (\A i \in DOMAIN suburb_ts : extract_qnum(suburb_ts[i]["Period"]) = NaN)
                  THEN QNone
             ELSE IF "Median_Price" \notin table.columns THEN QRaise("KeyError")
             ELSE LET kept == SelectSeq(suburb_ts,
                                LAMBDA r : extract_year(r["Period"]) # NaN
                                           /\ extract_qnum(r["Period"]) # NaN)
                  IN  QOk(SortByPeriod([i \in DOMAIN kept |->
                            [_year |-> extract_year(kept[i]["Period"]),
                             _qnum |-> extract_qnum(kept[i]["Period"]),
                             Median_Price |-> kept[i]["Median_Price"]]]))

\* the order of two percentages that are not missing
PctLeq(a, b) ==
    \/ a = b
    \/ IF (a.den > 0) = (b.den > 0)
       THEN a.num * b.den <= b.num * a.den
       ELSE a.num * b.den >= b.num * a.den

\* a compound rate ((num / den) ** (1 / root) - 1) * 100, or missing; a negative
\* base has no fractional power in floating point: the result is NaN
NoRate == [nan |-> TRUE, num |-> 0, den |-> 1, root |-> 1]
Rate(num, den, root) ==
    IF num < 0 /\ root # 1 THEN NoRate
    ELSE [nan |-> FALSE, num |-> num, den |-> den, root |-> root]

\* no row of the annual table (the None of lines 1013 and 1020)
NoRow ==
    [Year |-> NaN, Median_Price |-> NaN, YoY_Growth_Amount |-> NaN, YoY_Growth_Pct |-> NoPct]

\* annual['YoY_Growth_Pct'].notna().any()
any_pct(annual) == \E k \in DOMAIN annual : ~annual[k].YoY_Growth_Pct.nan

\* A plausible slip: the most recent year is taken for the best one
idxmax_last(annual) == Len(annual)

\* annual.loc[annual['YoY_Growth_Pct'].idxmax()]: the first row that holds the
\* greatest percentage, missing ones skipped
idxmax(annual) ==
    CHOOSE k \in DOMAIN annual :
        /\ ~annual[k].YoY_Growth_Pct.nan
        /\ \A j \in DOMAIN annual :
              ~annual[j].YoY_Growth_Pct.nan =>
                  /\ PctLeq(annual[j].YoY_Growth_Pct, annual[k].YoY_Growth_Pct)
                  /\ (j < k => annual[j].YoY_Growth_Pct # annual[k].YoY_Growth_Pct
                                /\ ~PctLeq(annual[k].YoY_Growth_Pct, annual[j].YoY_Growth_Pct))

\* annual.loc[annual['YoY_Growth_Pct'].idxmin()]
idxmin(annual) ==
    CHOOSE k \in DOMAIN annual :
        /\ ~annual[k].YoY_Growth_Pct.nan
        /\ \A j \in DOMAIN annual :
              ~annual[j].YoY_Growth_Pct.nan =>
                  /\ PctLeq(annual[k].YoY_Growth_Pct, annual[j].YoY_Growth_Pct)
                  /\ (j < k => annual[j].YoY_Growth_Pct # annual[k].YoY_Growth_Pct
                                /\ ~PctLeq(annual[j].YoY_Growth_Pct, annual[k].YoY_Growth_Pct))

\* the Growth Summary cards, none of them shown
NoCards ==
    [shown |-> FALSE, cagr |-> NoRate, total_growth |-> NoPct,
     best_yr |-> NoRow, worst_yr |-> NoRow]

\* A plausible slip: the cards are shown for every table, a single point or a
\* first value that is not positive included
growth_summary_unguarded(annual) ==
    LET first_price == annual[1].Median_Price
        last_price == annual[Len(annual)].Median_Price
        n_years == annual[Len(annual)].Year - annual[1].Year
    IN  [shown |-> TRUE,
         cagr |-> IF first_price = 0 \/ n_years = 0 THEN [nan |-> FALSE, num |-> 1, den |-> 1, root |-> 1]
                  ELSE Rate(last_price, first_price, n_years),
         total_growth |-> IF first_price = 0 THEN Pct(0, 1)
                          ELSE Pct((last_price - first_price) * 100, first_price),
         best_yr |-> IF any_pct(annual) THEN annual[idxmax(annual)] ELSE NoRow,
         worst_yr |-> IF any_pct(annual) THEN annual[idxmin(annual)] ELSE NoRow]

\* A plausible slip: the rate is taken from the second annual point
growth_summary_second_point(annual) ==
    IF Len(annual) >= 2
    THEN LET first_price == annual[1].Median_Price
             last_price == annual[2].Median_Price
             n_years == annual[2].Year - annual[1].Year
         IN  IF first_price > 0 /\ n_years > 0
             THEN [shown |-> TRUE,
                   cagr |-> Rate(last_price, first_price, n_years),
                   total_growth |-> Pct((last_price - first_price) * 100, first_price),
                   best_yr |-> IF any_pct(annual) THEN annual[idxmax(annual)] ELSE NoRow,
                   worst_yr |-> IF any_pct(annual) THEN annual[idxmin(annual)] ELSE NoRow]
             ELSE NoCards
    ELSE NoCards

\* render_yoy_tab, lines 990-1026: the four cards of the Growth Summary
growth_summary(annual) ==
    IF Len(annual) >= 2
    THEN LET first_price == annual[1].Median_Price
             last_price == annual[Len(annual)].Median_Price
             n_years == annual[Len(annual)].Year - annual[1].Year
         IN  IF first_price > 0 /\ n_years > 0
             THEN [shown |-> TRUE,
                   cagr |-> Rate(last_price, first_price, n_years),
                   total_growth |-> Pct((last_price - first_price) * 100, first_price),
                   best_yr |-> IF any_pct(annual) THEN annual[idxmax(annual)] ELSE NoRow,
                   worst_yr |-> IF any_pct(annual) THEN annual[idxmin(annual)] ELSE NoRow]
             ELSE NoCards
    ELSE NoCards

----------------------------------------------------------------------------
(* load_data *)

NoRead == [src |-> "none", file |-> AbsentFile, frame |-> EmptyFrame]

\* the usecols argument of the read of each source (lines 385-424)
usecols_of(s) ==
    CASE s = "rental" -> _RENTAL_COLS
      [] s = "culture" -> _CULTURE_COLS
      [] s = "ts" -> _TS_COLS
      [] OTHER -> None

Init ==
    /\ pc = "load_master"
    /\ master = EmptyFrame
    /\ df = EmptyFrame
    /\ ts = EmptyFrame
    /\ last = NoRead
    /\ exc = NoExc
    /\ ui = {}
    /\ selected = ""
    /\ chart = QNone
    /\ yoy = QNone
    /\ cards = NoCards
    /\ session = NoSession
    /\ widgets = NoWidgets
    /\ top = NoTop
    /\ row = NoData
    /\ reruns = 0

\* an uncaught exception of type e ends the run in function fn
Abort(e, fn) ==
    /\ pc' = "raised"
    /\ exc' = [type |-> e, at |-> fn]

\* A plausible slip: a missing master file is treated like a missing optional file
LoadMasterLenient(files) ==
    /\ pc = "load_master"
    /\ \E f \in files :
        LET r == _safe_read_csv(f, _MASTER_CORE_COLS)
        IN  /\ last' = [src |-> "master", file |-> f, frame |-> r.value]
            /\ IF r.exc # ""
               THEN Abort(r.exc, "load_data") /\ UNCHANGED <<master, df, ui>>
               ELSE /\ master' = r.value
                    /\ df' = r.value
                    /\ pc' = "preds"
                    /\ UNCHANGED <<exc, ui>>
    /\ UNCHANGED <<ts, selected, chart, yoy, cards, session, widgets, top, row, reruns>>

\* lines 373-382: the master file, restricted to the core columns it holds
LoadMaster(files) ==
    /\ pc = "load_master"
    /\ \E f \in files :
        LET h == read_header(f)
            valid_master_cols == {c \in _MASTER_CORE_COLS : c \in h.value.columns}
            r == IF h.exc # "" THEN h ELSE read_csv(f, valid_master_cols)
        IN  /\ last' = [src |-> "master", file |-> f, frame |-> r.value]
            /\ IF r.exc = "FileNotFoundError"
               THEN /\ ui' = ui \cup {"Master dataset not found!"}
                    /\ master' = EmptyFrame
                    /\ df' = EmptyFrame
                    /\ pc' = "main_check"
                    /\ UNCHANGED exc
               ELSE IF r.exc # ""
               THEN Abort(r.exc, "load_data") /\ UNCHANGED <<master, df, ui>>
               ELSE /\ master' = r.value
                    /\ df' = r.value
                    /\ pc' = "preds"
                    /\ UNCHANGED <<exc, ui>>
    /\ UNCHANGED <<ts, selected, chart, yoy, cards, session, widgets, top, row, reruns>>

\* one optional source: read it, and unless it is empty left-join the columns
\* the table does not hold yet (lines 385-388, and alike for each source)
MergeSource(s, next, files) ==
    /\ pc = s
    /\ \E f \in files :
        LET r == _safe_read_csv(f, usecols_of(s))
            incoming == r.value
            m == merge(df, Project(incoming, merge_cols(incoming, df)))
        IN  /\ last' = [src |-> s, file |-> f, frame |-> incoming]
            /\ IF r.exc # ""
               THEN Abort(r.exc, "load_data") /\ UNCHANGED df
               ELSE IF empty(incoming)
               THEN pc' = next /\ UNCHANGED <<df, exc>>
               ELSE IF m.exc # ""
               THEN Abort(m.exc, "load_data") /\ UNCHANGED df
               ELSE df' = m.value /\ pc' = next /\ UNCHANGED exc
    /\ UNCHANGED <<master, ts, ui, selected, chart, yoy, cards, session, widgets, top, row, reruns>>

MergePreds(files) == MergeSource("preds", "risk", files)
MergeRisk(files) == MergeSource("risk", "rental", files)
MergeRental(files) == MergeSource("rental", "culture", files)
MergeCulture(files) == MergeSource("culture", "crime_off", files)
MergeCrimeOff(files) == MergeSource("crime_off", "ts", files)

\* lines 421-424: the time series, not merged
ReadTs(files) ==
    /\ pc = "ts"
    /\ \E f \in files :
        LET r == _safe_read_csv(f, usecols_of("ts"))
        IN  /\ last' = [src |-> "ts", file |-> f, frame |-> r.value]
            /\ IF r.exc # ""
               THEN Abort(r.exc, "load_data") /\ UNCHANGED ts
               ELSE ts' = r.value /\ pc' = "derive" /\ UNCHANGED exc
    /\ UNCHANGED <<master, df, ui, selected, chart, yoy, cards, session, widgets, top, row, reruns>>

\* A plausible slip: the quotient is taken without the test of the population
crime_rate_unguarded(count, population) ==
    IF population = NaN \/ population = 0 \/ count = NaN THEN NaN
    ELSE (count * 1000) \div population

\* np.where(population > 0, count / population * 1000, 0) for one row; a missing
\* population compares False, a missing count gives a missing quotient; the
\* quotient is rounded down to a whole number
crime_rate(count, population) ==
    IF population # NaN /\ population > 0
    THEN IF count = NaN THEN NaN ELSE (count * 1000) \div population
    ELSE 0

\* A plausible slip: the field is computed whenever its dependencies are
\* present, over a value that a source supplied
with_crime_rate_overwriting(table) ==
    IF "Total_Crime_Count" \in table.columns /\ "G01_Population_Total" \in table.columns
    THEN LET cols == table.columns \cup {"Crime_Rate_Per_1000"}
         IN  [columns |-> cols,
              rows |-> [i \in DOMAIN table.rows |->
                          [c \in cols |->
                             IF c = "Crime_Rate_Per_1000"
                             THEN crime_rate(table.rows[i]["Total_Crime_Count"],
                                             table.rows[i]["G01_Population_Total"])
                             ELSE table.rows[i][c]]]]
    ELSE table

\* lines 427-432
with_crime_rate(table) ==
    IF "Crime_Rate_Per_1000" \notin table.columns
       /\ "Total_Crime_Count" \in table.columns
       /\ "G01_Population_Total" \in table.columns
    THEN LET cols == table.columns \cup {"Crime_Rate_Per_1000"}
         IN  [columns |-> cols,
              rows |-> [i \in DOMAIN table.rows |->
                          [c \in cols |->
                             IF c = "Crime_Rate_Per_1000"
                             THEN crime_rate(table.rows[i]["Total_Crime_Count"],
                                             table.rows[i]["G01_Population_Total"])
                             ELSE table.rows[i][c]]]]
    ELSE table

\* lines 426-434: the derived column, and the return to main
DeriveAndReturn ==
    /\ pc = "derive"
    /\ df' = with_crime_rate(df)
    /\ pc' = "main_check"
    /\ UNCHANGED <<master, ts, last, exc, ui, selected, chart, yoy, cards, session, widgets, top, row, reruns>>

----------------------------------------------------------------------------
(* main *)

\* the suburb names of the model, in the order of Python's string comparison
Names == <<"A", "B", "C", "D", "E", "F", "G", "H", "I", "J", "K", "L", "M", "N">>

Rank(s) == CHOOSE i \in DOMAIN Names : Names[i] = s

RECURSIVE sorted(_)
\* sorted(S) of a set of names
sorted(S) ==
    IF S = {} THEN <<>>
    ELSE LET m == CHOOSE x \in S : \A y \in S : Rank(x) <= Rank(y)
         IN  <<m>> \o sorted(S \ {m})

\* Series.unique(): the distinct values in order of first appearance
unique(s) ==
    LET firsts == {i \in DOMAIN s : \A j \in 1..(i - 1) : s[j] # s[i]}
    IN  [k \in 1..Cardinality(firsts) |->
            s[CHOOSE i \in firsts : Cardinality({j \in firsts : j < i}) = k - 1]]

\* A plausible slip: the keys in table order, not sorted
suburbs_list_unsorted(table) ==
    unique([i \in DOMAIN table.rows |-> table.rows[i]["Suburb"]])

\* line 1501: sorted(df['Suburb'].unique())
suburbs_list(table) == sorted(KeySet(table))

\* str.upper() of one character
upper(ch) ==
    CASE ch = "a" -> "A"
      [] ch = "b" -> "B"
      [] ch = "z" -> "Z"
      [] OTHER -> ch

RECURSIVE strip(_)
\* str.strip(): no blank at either end
strip(t) ==
    IF t = <<>> THEN <<>>
    ELSE IF Head(t) = " " THEN strip(Tail(t))
    ELSE IF t[Len(t)] = " " THEN strip(SubSeq(t, 1, Len(t) - 1))
    ELSE t

\* line 1526: search_input.strip().upper()
search_upper(search_input) ==
    LET t == strip(search_input) IN [i \in DOMAIN t |-> upper(t[i])]

\* `q in s` for a suburb name s of one character
contains(s, q) == q = <<>> \/ (Len(q) = 1 /\ q[1] = s)

\* line 1527: the suburbs whose name contains the text searched
found(table, search_input) ==
    LET Found(s) == contains(s, search_upper(search_input))
    IN  SelectSeq(suburbs_list(table), Found)

\* lines 1525-1532: the suburbs offered by the selectbox
matches(table, search_input) ==
    IF search_input # <<>> /\ found(table, search_input) # <<>>
    THEN found(table, search_input)
    ELSE suburbs_list(table)

\* lines 1534-1536: the position (from 0) the selectbox shows by default
default_idx(offered, map_suburb) ==
    IF map_suburb # NoSuburb /\ map_suburb \in Range(offered)
    THEN (CHOOSE i \in DOMAIN offered : offered[i] = map_suburb) - 1
    ELSE 0

\* st.selectbox(label, options, index): a selectbox drawn with the label,
\* options and index of the one the browser holds is that widget and returns
\* the value the user left in it; any other is a new widget at its default
selectbox(held, offered, index) ==
    IF held.options = offered /\ held.index = index
    THEN held
    ELSE [options |-> offered, index |-> index, value |-> offered[index + 1]]

\* lines 1497-1508: an empty table ends the run; the session keys are created
MainCheck ==
    /\ pc = "main_check"
    /\ IF empty(df)
       THEN /\ ui' = ui \cup {"Failed to load data. Please check the data directory."}
            /\ pc' = "failed"
            /\ UNCHANGED <<exc, session>>
       ELSE IF ~({"Suburb", "Current_Price_2025"} \subseteq df.columns)
       THEN Abort("KeyError", "main") /\ UNCHANGED <<ui, session>>
       ELSE /\ pc' = "sidebar"
            /\ session' = IF session = NoSession
                          THEN [map_suburb |-> NoSuburb, last_click_id |-> NoClickId]
                          ELSE session
            /\ UNCHANGED <<exc, ui>>
    /\ UNCHANGED <<master, df, ts, last, selected, chart, yoy, cards, widgets, top, row, reruns>>

\* lines 1522-1541: the search box, the selectbox and the reset of map_suburb
SelectSuburb ==
    /\ pc = "sidebar"
    /\ LET offered == matches(df, widgets.search_input)
           box == selectbox(widgets.selectbox, offered,
                            default_idx(offered, session.map_suburb))
       IN  /\ widgets' = [widgets EXCEPT !.selectbox = box]
           /\ selected' = box.value
           /\ session' = IF box.value # session.map_suburb
                         THEN [session EXCEPT !.map_suburb = NoSuburb]
                         ELSE session
           /\ ui' = IF widgets.search_input # <<>>
                       /\ found(df, widgets.search_input) = <<>>
                    THEN ui \cup {"No suburb found matching"}
                    ELSE ui
    /\ pc' = "landing"
    /\ UNCHANGED <<master, df, ts, last, exc, chart, yoy, cards, top, row, reruns>>

\* Series.notna() of a column as a row filter
notna_rows(rows, c) == LET Has(r) == r[c] # NaN IN SelectSeq(rows, Has)
isna_rows(rows, c) == LET Lacks(r) == r[c] = NaN IN SelectSeq(rows, Lacks)

RECURSIVE sort_descending(_, _)
\* the rows by falling value of column c (none missing), rows of equal value
\* in their original order
sort_descending(rows, c) ==
    IF rows = <<>> THEN <<>>
    ELSE LET m == CHOOSE i \in DOMAIN rows :
                     /\ \A j \in DOMAIN rows : rows[j][c] <= rows[i][c]
                     /\ \A j \in 1..(i - 1) : rows[j][c] < rows[i][c]
         IN  <<rows[m]>>
             \o sort_descending([k \in 1..(Len(rows) - 1) |->
                                    IF k < m THEN rows[k] ELSE rows[k + 1]], c)

\* s.iloc[:n]
head(s, n) == SubSeq(s, 1, IF Len(s) < n THEN Len(s) ELSE n)

\* DataFrame.nlargest(n, c), keep='first': the rows with a value by falling
\* value, then the rows without one, cut to n rows
nlargest(n, c, rows) ==
    head(sort_descending(notna_rows(rows, c), c) \o isna_rows(rows, c), n)

\* the number of rows of a leaderboard (nlargest(10, ...))
TopN == 10

\* line 1572: the rows that have a current price
valid(table) == notna_rows(table.rows, "Current_Price_2025")

\* frame[cols] of a sequence of rows
columns_of(rows, cols) == [i \in DOMAIN rows |-> [c \in cols |-> rows[i][c]]]

\* lines 1578-1581: the growth leaderboard
top_growth(table) ==
    IF "Price_Growth_Percent" \in table.columns
    THEN [shown |-> TRUE,
          rows |-> columns_of(nlargest(TopN, "Price_Growth_Percent", valid(table)),
                              {"Suburb", "Current_Price_2025", "Price_Growth_Percent"})]
    ELSE NoBoard

\* lines 1590-1596: the risk leaderboard, with the category where there is one
top_risk(table) ==
    IF "Total_Risk_Score" \in table.columns
    THEN LET board == columns_of(nlargest(TopN, "Total_Risk_Score", valid(table)),
                                 {"Suburb", "Current_Price_2025", "Total_Risk_Score"})
             Category(s) == table.rows[CHOOSE i \in DOMAIN table.rows :
                                           table.rows[i]["Suburb"] = s]["Total_Risk_Category"]
         IN  [shown |-> TRUE,
              rows |-> IF "Total_Risk_Category" \in table.columns
                       THEN [i \in DOMAIN board |->
                               [c \in DOMAIN board[i] \cup {"Risk Category"} |->
                                  IF c = "Risk Category"
                                  THEN Category(board[i]["Suburb"])
                                  ELSE board[i][c]]]
                       ELSE board]
    ELSE NoBoard

\* lines 1568-1602: the landing dashboard. Series.map over a lookup whose
\* index (Suburb) repeats raises InvalidIndexError
TopPerformers ==
    /\ pc = "landing"
    /\ IF /\ {"Total_Risk_Score", "Total_Risk_Category"} \subseteq df.columns
          /\ valid(df) # <<>>
          /\ Cardinality(KeySet(df)) < Len(df.rows)
       THEN Abort("InvalidIndexError", "main") /\ UNCHANGED top
       ELSE /\ top' = [growth |-> top_growth(df), risk |-> top_risk(df)]
            /\ pc' = "map"
            /\ UNCHANGED exc
    /\ UNCHANGED <<master, df, ts, last, ui, selected, chart, yoy, cards, session, widgets, row, reruns>>

\* no suburb_coordinates.json: load_coordinates returns {}
NoCoords == <<>>
\* suburb_coordinates.json: two suburbs of the table and one that is not,
\* positions in units of 0.00001 degree
Coords ==
    <<[sub |-> "A", lat |-> 0, lng |-> 0],
      [sub |-> "B", lat |-> 100, lng |-> 0],
      [sub |-> "C", lat |-> 200, lng |-> 0]>>

\* f"{x:.4f}" of a coordinate given in units of 0.00001 degree
fmt4(x) == (x + 5) \div 10

\* line 1617: the identifier of a click
click_id(click) == <<fmt4(click.lat), fmt4(click.lng)>>

\* line 1622: the squared distance of a suburb's position from the click
dist(coord, click) ==
    (coord.lat - click.lat) * (coord.lat - click.lat)
    + (coord.lng - click.lng) * (coord.lng - click.lng)

\* lines 1619-1625: the first suburb at the least distance, None without any
nearest(coords, click) ==
    IF coords = <<>> THEN NoSuburb
    ELSE coords[CHOOSE i \in DOMAIN coords :
                   /\ \A j \in DOMAIN coords : dist(coords[i], click) <= dist(coords[j], click)
                   /\ \A j \in 1..(i - 1) : dist(coords[i], click) < dist(coords[j], click)].sub

\* the outputs of a script run, cleared when the next run starts
StartRun ==
    /\ pc' = "main_check"
    /\ ui' = {}
    /\ selected' = ""
    /\ chart' = QNone
    /\ yoy' = QNone
    /\ cards' = NoCards
    /\ top' = NoTop
    /\ row' = NoData

\* A plausible slip: the click is recorded whatever the nearest suburb is
MapClickAnySuburb(coords, geojson_data) ==
    /\ pc = "map"
    /\ IF geojson_data \/ coords # <<>>
       THEN IF /\ widgets.last_clicked # NoClick
               /\ click_id(widgets.last_clicked) # session.last_click_id
               /\ nearest(coords, widgets.last_clicked) # NoSuburb
            THEN /\ session' = [last_click_id |-> click_id(widgets.last_clicked),
                                map_suburb |-> nearest(coords, widgets.last_clicked)]
                 /\ reruns' = reruns + 1
                 /\ StartRun
            ELSE /\ pc' = "report"
                 /\ UNCHANGED <<ui, selected, chart, yoy, cards, top, row, session, reruns>>
       ELSE /\ ui' = ui \cup {"Map data (GeoJSON/coordinates) not available."}
            /\ pc' = "report"
            /\ UNCHANGED <<selected, chart, yoy, cards, top, row, session, reruns>>
    /\ UNCHANGED <<master, df, ts, last, exc, widgets>>

\* lines 1610-1632: the map, and the click st_folium reports. A click not yet
\* handled whose nearest suburb is in the table is recorded and the script is
\* run again (st.rerun)
MapClick(coords, geojson_data) ==
    /\ pc = "map"
    /\ IF geojson_data \/ coords # <<>>
       THEN IF /\ widgets.last_clicked # NoClick
               /\ click_id(widgets.last_clicked) # session.last_click_id
               /\ nearest(coords, widgets.last_clicked) # NoSuburb
               /\ nearest(coords, widgets.last_clicked) \in Range(suburbs_list(df))
            THEN /\ session' = [last_click_id |-> click_id(widgets.last_clicked),
                                map_suburb |-> nearest(coords, widgets.last_clicked)]
                 /\ reruns' = reruns + 1
                 /\ StartRun
            ELSE /\ pc' = "report"
                 /\ UNCHANGED <<ui, selected, chart, yoy, cards, top, row, session, reruns>>
       ELSE /\ ui' = ui \cup {"Map data (GeoJSON/coordinates) not available."}
            /\ pc' = "report"
            /\ UNCHANGED <<selected, chart, yoy, cards, top, row, session, reruns>>
    /\ UNCHANGED <<master, df, ts, last, exc, widgets>>

\* lines 1636-1642: df[df['Suburb'] == key], its first row or no data
lookup(table, key) ==
    LET Is(r) == r["Suburb"] = key
        row_data == SelectSeq(table.rows, Is)
    IN  IF row_data # <<>>
        THEN [found |-> TRUE, row |-> row_data[1]]
        ELSE [found |-> FALSE, row |-> NoData]

\* lines 1634-1642: the report of the selected suburb, or the error
Report ==
    /\ pc = "report"
    /\ IF selected # ""
       THEN LET r == lookup(df, selected)
            IN  IF r.found
                THEN row' = r.row /\ pc' = "report_chart" /\ UNCHANGED ui
                ELSE /\ ui' = ui \cup {"No data found for suburb"}
                     /\ pc' = "done"
                     /\ UNCHANGED row
       ELSE pc' = "done" /\ UNCHANGED <<ui, row>>
    /\ UNCHANGED <<master, df, ts, last, exc, selected, chart, yoy, cards, session, widgets, top, reruns>>

\* A plausible slip: the parsed year is written to the shared table
table_after_query_in_place(table) ==
    [columns |-> table.columns \cup {"_year"},
     rows |-> [i \in DOMAIN table.rows |->
                 [c \in table.columns \cup {"_year"} |->
                    IF c = "_year"
                    THEN (IF "Period" \in table.columns
                          THEN extract_year(table.rows[i]["Period"]) ELSE NaN)
                    ELSE table.rows[i][c]]]]

\* lines 789 and 856: the table a query was called on, after the call. The
\* query works on a copy of the rows of the suburb and assigns to nothing else
table_after_query(table) == table

\* render_suburb_report, lines 1183-1187: the price history chart
PriceHistoryTab ==
    /\ pc = "report_chart"
    /\ chart' = create_price_chart(ts, row["Suburb"])
    /\ IF chart'.exc # ""
       THEN Abort(chart'.exc, "create_price_chart") /\ UNCHANGED ui
       ELSE /\ pc' = "report_yoy"
            /\ ui' = IF chart'.none
                     THEN ui \cup {"No timeseries data available for this suburb."}
                     ELSE ui
            /\ UNCHANGED exc
    /\ ts' = table_after_query(ts)
    /\ UNCHANGED <<master, df, last, selected, yoy, cards, session, widgets, top, row, reruns>>

\* render_yoy_tab, lines 948-1026: the notice that there is no series, or the
\* annual breakdown and the Growth Summary cards
YoyTab ==
    /\ pc = "report_yoy"
    /\ yoy' = compute_yoy_growth(ts, row["Suburb"])
    /\ IF yoy'.exc # ""
       THEN Abort(yoy'.exc, "compute_yoy_growth") /\ UNCHANGED <<ui, cards>>
       ELSE /\ pc' = "done"
            /\ IF yoy'.none \/ yoy'.rows = <<>>
               THEN /\ ui' = ui \cup {"No timeseries data available for year-to-year analysis."}
                    /\ UNCHANGED cards
               ELSE /\ cards' = growth_summary(yoy'.rows)
                    /\ UNCHANGED ui
            /\ UNCHANGED exc
    /\ ts' = table_after_query(ts)
    /\ UNCHANGED <<master, df, last, selected, chart, session, widgets, top, row, reruns>>

\* the user picks another suburb in the selectbox: the script runs again
UserSelects(picks) ==
    /\ pc = "done"
    /\ \E s \in picks \cap Range(widgets.selectbox.options) :
          /\ s # widgets.selectbox.value
          /\ widgets' = [widgets EXCEPT !.selectbox.value = s]
    /\ reruns' = 0
    /\ StartRun
    /\ UNCHANGED <<master, df, ts, last, exc, session>>

\* the user enters another text in the search box: the script runs again
UserSearches(texts) ==
    /\ pc = "done"
    /\ \E t \in texts :
          /\ t # widgets.search_input
          /\ widgets' = [widgets EXCEPT !.search_input = t]
    /\ reruns' = 0
    /\ StartRun
    /\ UNCHANGED <<master, df, ts, last, exc, session>>

\* the user clicks another point of the map: st_folium reports it from now on,
\* and the script runs again
UserClicks(clicks) ==
    /\ pc = "done"
    /\ "Map data (GeoJSON/coordinates) not available." \notin ui
    /\ \E c \in clicks :
          /\ c # widgets.last_clicked
          /\ widgets' = [widgets EXCEPT !.last_clicked = c]
    /\ reruns' = 0
    /\ StartRun
    /\ UNCHANGED <<master, df, ts, last, exc, session>>

----------------------------------------------------------------------------
(* Specifications *)

\* every content of the master and of the optional sources, two time series
Next ==
    \/ LoadMaster(MasterFiles)
    \/ MergePreds(OptionalFiles("preds"))
    \/ MergeRisk(OptionalFiles("risk"))
    \/ MergeRental(OptionalFiles("rental"))
    \/ MergeCulture(OptionalFiles("culture"))
    \/ MergeCrimeOff(OptionalFiles("crime_off"))
    \/ ReadTs(TsFilesSmall)
    \/ DeriveAndReturn
    \/ MainCheck
    \/ SelectSuburb
    \/ TopPerformers
    \/ MapClick(NoCoords, FALSE)
    \/ Report
    \/ PriceHistoryTab
    \/ YoyTab

Spec == Init /\ [][Next]_vars

MasterFull == CsvFile("master", {"Suburb", "Current_Price_2025"}, <<"A", "B">>)

\* a full master, no optional source, every content of the time series
NextGrowth ==
    \/ LoadMaster({MasterFull})
    \/ MergePreds({AbsentFile})
    \/ MergeRisk({AbsentFile})
    \/ MergeRental({AbsentFile})
    \/ MergeCulture({AbsentFile})
    \/ MergeCrimeOff({AbsentFile})
    \/ ReadTs(TsFiles)
    \/ DeriveAndReturn
    \/ MainCheck
    \/ SelectSuburb
    \/ TopPerformers
    \/ MapClick(NoCoords, FALSE)
    \/ Report
    \/ PriceHistoryTab
    \/ YoyTab
    \/ UserSelects({"B"})

SpecGrowth == Init /\ [][NextGrowth]_vars

\* a full master, no optional source, the time series of the growth summary
NextAnnual ==
    \/ LoadMaster({MasterFull})
    \/ MergePreds({AbsentFile})
    \/ MergeRisk({AbsentFile})
    \/ MergeRental({AbsentFile})
    \/ MergeCulture({AbsentFile})
    \/ MergeCrimeOff({AbsentFile})
    \/ ReadTs(AnnualFiles)
    \/ DeriveAndReturn
    \/ MainCheck
    \/ SelectSuburb
    \/ TopPerformers
    \/ MapClick(NoCoords, FALSE)
    \/ Report
    \/ PriceHistoryTab
    \/ YoyTab
    \/ UserSelects({"B"})

SpecAnnual == Init /\ [][NextAnnual]_vars

\* the sources that bear on Crime_Rate_Per_1000, two time series
NextDerive ==
    \/ LoadMaster(DeriveMasterFiles)
    \/ MergePreds({AbsentFile})
    \/ MergeRisk(DeriveRiskFiles)
    \/ MergeRental({AbsentFile})
    \/ MergeCulture(DeriveCultureFiles)
    \/ MergeCrimeOff({AbsentFile})
    \/ ReadTs(TsFilesSmall)
    \/ DeriveAndReturn
    \/ MainCheck
    \/ SelectSuburb
    \/ TopPerformers
    \/ MapClick(NoCoords, FALSE)
    \/ Report
    \/ PriceHistoryTab
    \/ YoyTab

SpecDerive == Init /\ [][NextDerive]_vars

\* the master of the session: two suburbs, not in the order of their names
SessionMaster == CsvFile("master", {"Suburb", "Current_Price_2025"}, <<"B", "A">>)

\* what the user may enter in the search box: nothing, a suburb's name in
\* lower case with a blank, a text no suburb contains
Texts == {<<>>, <<"a", " ">>, <<"z">>}

\* where the user may click: twice near A (both clicks have the same
\* identifier), near B, and near C, which is not a suburb of the table
Clicks ==
    {[lat |-> 1, lng |-> 0], [lat |-> 3, lng |-> 0],
     [lat |-> 98, lng |-> 0], [lat |-> 204, lng |-> 0]}

\* one loaded table, and a user who searches, selects and clicks on the map
NextSession ==
    \/ LoadMaster({SessionMaster})
    \/ MergePreds({AbsentFile})
    \/ MergeRisk({AbsentFile})
    \/ MergeRental({AbsentFile})
    \/ MergeCulture({AbsentFile})
    \/ MergeCrimeOff({AbsentFile})
    \/ ReadTs({TsExample})
    \/ DeriveAndReturn
    \/ MainCheck
    \/ SelectSuburb
    \/ TopPerformers
    \/ MapClick(Coords, FALSE)
    \/ Report
    \/ PriceHistoryTab
    \/ YoyTab
    \/ UserSelects({"A", "B"})
    \/ UserSearches(Texts)
    \/ UserClicks(Clicks)

SpecSession == Init /\ [][NextSession]_vars

\* a growth value: missing, or one of two values
Growths == {NaN, 1, 2}

LeaderHeader == {"Suburb", "Current_Price_2025", "Price_Growth_Percent"}

\* a master file of n rows, suburbs in falling order of their names, growth
\* and price of row i given by g[i] and p[i]
LeaderFile(n, g, p) ==
    [status |-> "ok", header |-> LeaderHeader,
     rows |-> [i \in 1..n |->
                 [c \in LeaderHeader |->
                    IF c = "Suburb" THEN Names[n + 1 - i]
                    ELSE IF c = "Price_Growth_Percent" THEN g[i]
                    ELSE p[i]]]]

\* the master files of the leaderboards: every table of up to MaxLeaders rows
\* with any growth values, the first row with or without a price; and tables
\* of about TopN rows whose growth values repeat, fall, or are missing in part
LeaderMasterFiles ==
    {LeaderFile(Len(gs), gs, [i \in DOMAIN gs |-> IF i = 1 THEN p1 ELSE 5]) :
        gs \in SeqsUpTo(Growths, MaxLeaders), p1 \in {NaN, 5}}
    \cup
    {LeaderFile(n,
                [i \in 1..n |-> CASE k = 1 -> i % 3
                                  [] k = 2 -> n - i
                                  [] k = 3 -> IF i % 2 = 0 THEN NaN ELSE 7
                                  [] OTHER -> IF i > 2 THEN 1 ELSE NaN],
                [i \in 1..n |-> 5]) :
        n \in (TopN - 1)..MaxSuburbs, k \in 1..4}

\* the risk files of the leaderboards: none, or scores (two of them equal)
\* for the last three names of a three-row master, with or without a category
LeaderRiskFiles ==
    {AbsentFile}
    \cup {[status |-> "ok", header |-> h,
           rows |-> [i \in 1..3 |->
                       [c \in h |-> IF c = "Suburb" THEN Names[i]
                                    ELSE IF c = "Total_Risk_Score" THEN (IF i = 2 THEN NaN ELSE 6)
                                    ELSE 10 + i]]] :
            h \in {{"Suburb", "Total_Risk_Score"},
                   {"Suburb", "Total_Risk_Score", "Total_Risk_Category"}}}

\* the sources that bear on the leaderboards and on the list of keys
NextTop ==
    \/ LoadMaster(LeaderMasterFiles)
    \/ MergePreds({AbsentFile})
    \/ MergeRisk(LeaderRiskFiles)
    \/ MergeRental({AbsentFile})
    \/ MergeCulture({AbsentFile})
    \/ MergeCrimeOff({AbsentFile})
    \/ ReadTs({TsExample})
    \/ DeriveAndReturn
    \/ MainCheck
    \/ SelectSuburb
    \/ TopPerformers
    \/ MapClick(NoCoords, FALSE)
    \/ Report
    \/ PriceHistoryTab
    \/ YoyTab

SpecTop == Init /\ [][NextTop]_vars

----------------------------------------------------------------------------
(* Properties of the merge pipeline, checked under Spec *)

OptionalSources == Range(Optional)

\* the step of load_data that read `last` ended load_data with an exception
LoadAborted == pc = "raised" /\ exc.at = "load_data"

\* the optional source read last was merged into df
MergedLast ==
    /\ last.src \in OptionalSources
    /\ pc # "raised"
    /\ ~empty(last.frame)

\* C1: in every state of the run, the set of distinct Suburb keys of the table
\* equals the set of Suburb keys of the master as read: no merge step adds a
\* key the master lacks and none removes a key.
C1_RowCountInvariance == KeySet(df) = KeySet(master)

\* a source that lists a suburb the master lacks, and not the master's suburb
\* "B", has been merged
C1_Witness ==
    /\ MergedLast
    /\ "C" \in KeySet(last.frame)
    /\ "B" \notin KeySet(last.frame)
    /\ (last.frame.columns \ {"Suburb"}) \cap df.columns # {}
    /\ KeySet(master) = {"A", "B"}

\* a step that merges an optional source is followed by the step of the next
\* source of the order; it keeps every column the table
\* holds, under its name, with the values every row had (first-seen field
\* wins: a later source neither overwrites nor renames it), and every column
\* the step adds holds, for each row, a value of the merged source for that
\* row's suburb, or the missing marker.
MergeKeepsFields ==
    (pc \in OptionalSources /\ pc' # "raised") =>
        /\ pc' = IF SrcIndex(pc) = Len(Optional) THEN "ts" ELSE Optional[SrcIndex(pc) + 1]
        /\ df.columns \subseteq df'.columns
        /\ \A i \in DOMAIN df'.rows : \E j \in DOMAIN df.rows :
              \A c \in df.columns : df'.rows[i][c] = df.rows[j][c]
        /\ \A j \in DOMAIN df.rows : \E i \in DOMAIN df'.rows :
              \A c \in df.columns : df'.rows[i][c] = df.rows[j][c]
        /\ \A c \in df'.columns \ df.columns :
              /\ c \in last'.frame.columns
              /\ \A i \in DOMAIN df'.rows :
                    \/ df'.rows[i][c] = NaN
                    \/ \E k \in DOMAIN last'.frame.rows :
                          /\ last'.frame.rows[k]["Suburb"] = df'.rows[i]["Suburb"]
                          /\ last'.frame.rows[k][c] = df'.rows[i][c]

\* C2: first-seen field wins: every step that merges an optional source keeps
\* the fields of the table and takes the new ones from that source.
C2_FirstSeenFieldWins == [][MergeKeepsFields]_vars

\* the source merged last defines, for a suburb of the table, a column that an
\* earlier source defined for it, with another value: the table holds the
\* earlier one
C2_Witness ==
    /\ MergedLast
    /\ \E c \in last.frame.columns \ {"Suburb"} :
          /\ c \in df.columns
          /\ \E i \in DOMAIN df.rows, k \in DOMAIN last.frame.rows :
                /\ "Suburb" \in last.frame.columns
                /\ last.frame.rows[k]["Suburb"] = df.rows[i]["Suburb"]
                /\ df.rows[i][c] # NaN
                /\ df.rows[i][c] # last.frame.rows[k][c]
                /\ df.rows[i][c] < Tag(last.src, 1)

\* C3: when the master has one row per Suburb, so has the table after every
\* merge step, whatever the optional sources hold.
C3_OneRowPerKey ==
    (\A i, j \in DOMAIN master.rows :
        i # j => master.rows[i]["Suburb"] # master.rows[j]["Suburb"])
    => \A i, j \in DOMAIN df.rows :
        i # j => df.rows[i]["Suburb"] # df.rows[j]["Suburb"]

\* the master file was not found
MasterMissing == last.src = "master" /\ last.file.status = "absent"

\* C4: when the master file is not found, load_data reports it and returns an
\* empty table and an empty series, no optional source is read or merged, and
\* main reports the failure and renders nothing; main reports the failure
\* only when the master gave no row, whatever the other sources are.
C4_MandatorySource ==
    /\ (MasterMissing /\ pc # "load_master") =>
          /\ pc \in {"main_check", "failed"}
          /\ "Master dataset not found!" \in ui
          /\ df = EmptyFrame /\ ts = EmptyFrame /\ master = EmptyFrame
          /\ exc = NoExc
          /\ selected = "" /\ chart = QNone /\ yoy = QNone /\ cards = NoCards
    /\ pc = "failed" =>
          /\ "Failed to load data. Please check the data directory." \in ui
          /\ empty(master)
          /\ selected = "" /\ chart = QNone /\ yoy = QNone /\ cards = NoCards
    /\ "Master dataset not found!" \in ui => MasterMissing

\* main has reported the failure of a run whose master file was not found
C4_Witness == MasterMissing /\ pc = "failed"

\* C5: a read of _safe_read_csv gives the empty frame, and load_data no
\* exception, when the file is absent or holds none of the requested columns;
\* it gives the file's rows restricted to the requested columns the header
\* holds when some are requested, and the whole file when none is requested.
C5_SchemaTolerantReader ==
    (last.src \in OptionalSources \cup {"ts"}) =>
        LET whole == [columns |-> last.file.header, rows |-> last.file.rows]
            usecols == usecols_of(last.src)
            wanted == last.file.header \cap usecols
        IN  /\ last.file.status = "absent" =>
                  last.frame = EmptyFrame /\ ~LoadAborted
            /\ (last.file.status = "ok" /\ usecols # None /\ wanted = {}) =>
                  last.frame = EmptyFrame /\ ~LoadAborted
            /\ (last.file.status = "ok" /\ usecols # None /\ wanted # {}) =>
                  /\ last.frame.columns = wanted
                  /\ Len(last.frame.rows) = Len(last.file.rows)
                  /\ \A i \in DOMAIN last.file.rows : \A c \in wanted :
                        last.frame.rows[i][c] = last.file.rows[i][c]
            /\ (last.file.status = "ok" /\ usecols = None) => last.frame = whole

\* the rental file holds a requested column, a column that is not requested,
\* and a row: the frame read is a proper restriction of the file
C5_Witness ==
    /\ last.src = "rental"
    /\ last.file.status = "ok"
    /\ last.file.rows # <<>>
    /\ last.file.header \cap _RENTAL_COLS # {}
    /\ last.file.header \ _RENTAL_COLS # {}
    /\ last.frame.columns # last.file.header

\* the step of a missing source never ends load_data and leaves the
\* table as it was, columns and values (so the table returned is the one the
\* present sources alone give); a missing time series gives the empty series.
MissingSourceSkipped ==
    (pc \in OptionalSources \cup {"ts"} /\ last'.file.status = "absent") =>
        /\ pc' \notin {pc, "raised"}
        /\ exc' = NoExc
        /\ df' = df
        /\ (pc = "ts" => ts' = EmptyFrame)

\* C6: every step of a missing source is skipped: load_data goes on with the
\* table unchanged.
C6_SourceUnavailable == [][MissingSourceSkipped]_vars

\* an optional source has been found missing after another one was merged, and
\* load_data has gone on to the next source
C6_Witness ==
    /\ last.src \in OptionalSources /\ last.file.status = "absent"
    /\ pc \in OptionalSources \cup {"ts"}
    /\ df.columns # master.columns
    /\ ~empty(df)

\* C7: load_data is never ended by an optional source that is readable,
\* whichever of its columns are missing (the key column Suburb included).
C7_MissingColumnNeverAborts ==
    ~(LoadAborted /\ last.src \in OptionalSources /\ last.file.status = "ok")

\* C8: load_data is never ended by an optional source whose read fails for
\* another reason than "not found".
C8_ReadFailureIsUnavailable ==
    ~(LoadAborted /\ last.src \in OptionalSources /\ last.file.status = "unreadable")

----------------------------------------------------------------------------
(* Properties of the time-series queries, checked under SpecGrowth *)

\* the series gives no data for the selected suburb: the file is absent, or
\* lacks the Period or the Median_Price column, or has no row of the suburb
SeriesInsufficient ==
    /\ last.src = "ts"
    /\ selected # ""
    /\ \/ last.file.status = "absent"
       \/ "Period" \notin ts.columns
       \/ "Median_Price" \notin ts.columns
       \/ ("Suburb" \in ts.columns /\ RowsOfSuburb(ts, selected) = <<>>)

\* C9: when the series gives no data for the selected suburb, neither query
\* raises an error: the chart and the growth summary are reported unavailable.
C9_NoCrashOnMissingSeries ==
    SeriesInsufficient =>
        /\ ~(pc = "raised" /\ exc.at \in {"create_price_chart", "compute_yoy_growth"})
        /\ (pc \in {"report_yoy", "done"} => chart.none)
        /\ (pc = "done" => yoy.none)

\* the observations of the selected suburb that the period parser keeps (a
\* year and a quarter digit) and that have a price
ParsedObservations ==
    SelectSeq(RowsOfSuburb(ts, selected),
              LAMBDA r : /\ extract_year(r["Period"]) # NaN
                         /\ extract_qnum(r["Period"]) # NaN
                         /\ r["Median_Price"] # NaN)

\* C10: the annual aggregates of compute_yoy_growth are those of the
\* observations the period parser keeps: an observation whose label has no
\* "Q<digit>" token or no 4-digit year contributes to none.
C10_YoyUsesPeriodParser ==
    (pc = "done" /\ ~yoy.none) => yoy.rows = AnnualOf(ParsedObservations)

----------------------------------------------------------------------------
(* Properties of the chart series, checked under SpecGrowth *)

\* create_price_chart has returned for the selected suburb
ChartReturned ==
    \/ pc \in {"report_yoy", "done"}
    \/ (pc = "raised" /\ exc.at = "compute_yoy_growth")

\* the series holds observations: a label and a value for each row
SeriesComplete == {"Suburb", "Period", "Median_Price"} \subseteq ts.columns

\* the label has a run of four digits
HasYearToken(label) ==
    \E i \in 1..(Len(label) - 3) : \A k \in 0..3 : IsDigit(label[i + k])

\* the label has a "Q" that a digit follows
HasQuarterToken(label) ==
    \E i \in 1..(Len(label) - 1) : label[i] = "Q" /\ IsDigit(label[i + 1])

\* how many rows of s satisfy Test
Count(s, Test(_)) == Cardinality({i \in DOMAIN s : Test(s[i])})

\* C11: the series of create_price_chart holds exactly the observations of the
\* suburb whose label has a 4-digit year and a "Q<digit>" token, each one as
\* many times as the input has it and whatever the input order, "2023Q2" as
\* (2023, 2), in ascending order of (year, quarter).
C11_ChartSeriesParsedAndOrdered ==
    (ChartReturned /\ SeriesComplete) =>
        LET input == RowsOfSuburb(ts, selected)
            with_tokens == SelectSeq(input, LAMBDA r : /\ HasYearToken(r["Period"])
                                                      /\ HasQuarterToken(r["Period"]))
            expected == [i \in DOMAIN with_tokens |->
                            [_year |-> extract_year(with_tokens[i]["Period"]),
                             _qnum |-> extract_qnum(with_tokens[i]["Period"]),
                             Median_Price |-> with_tokens[i]["Median_Price"]]]
            series == chart.rows
        IN  /\ chart.none => series = <<>>
            /\ Len(series) = Len(expected)
            /\ \A i \in DOMAIN series :
                  Count(series, LAMBDA r : r = series[i])
                  = Count(expected, LAMBDA r : r = series[i])
            /\ Count(series, LAMBDA r : r._year = 2023 /\ r._qnum = 2)
               = Count(input, LAMBDA r : r["Period"] = Label_2023Q2)
            /\ \A i, j \in DOMAIN series :
                  i < j => \/ series[i]._year < series[j]._year
                           \/ /\ series[i]._year = series[j]._year
                              /\ series[i]._qnum <= series[j]._qnum

\* an unparseable label comes before a parseable one: the second one alone is
\* in the series
C11_Witness ==
    /\ ChartReturned
    /\ SeriesComplete
    /\ LET input == RowsOfSuburb(ts, selected)
       IN  /\ Len(input) = 2
           /\ input[1]["Period"] = Label_Early2023
           /\ input[2]["Period"] = Label_2023Q2
    /\ ~chart.none
    /\ Len(chart.rows) = 1
    /\ chart.rows[1]._year = 2023
    /\ chart.rows[1]._qnum = 2

\* C12: every observation kept in the series of create_price_chart has a
\* quarter in 1..4.
C12_QuarterInRange ==
    (ChartReturned /\ ~chart.none) =>
        \A i \in DOMAIN chart.rows : chart.rows[i]._qnum \in 1..4

----------------------------------------------------------------------------
(* Properties of the growth summary, checked under SpecAnnual *)

\* compute_yoy_growth has returned a table for the selected suburb
YoyReturned == pc = "done" /\ ~yoy.none

\* the prices of the suburb's observations of year y: the observations whose
\* label yields a year and whose price is present
ValuesOfYear(y) ==
    LET obs == SelectSeq(RowsOfSuburb(ts, selected),
                         LAMBDA r : /\ HasYearToken(r["Period"])
                                    /\ extract_year(r["Period"]) = y
                                    /\ r["Median_Price"] # NaN)
    IN  [i \in DOMAIN obs |-> obs[i]["Median_Price"]]

\* the k-th smallest of the values
OrderStat(values, k) ==
    CHOOSE v \in Range(values) :
        /\ Cardinality({i \in DOMAIN values : values[i] < v}) < k
        /\ Cardinality({i \in DOMAIN values : values[i] <= v}) >= k

\* the median by its definition: the middle value, or the mean of the two
MedianOf(values) ==
    LET n == Len(values)
    IN  (OrderStat(values, (n + 1) \div 2) + OrderStat(values, n \div 2 + 1)) \div 2

\* the years of the labels of the time series
YearsOfSeries ==
    {extract_year(ts.rows[i]["Period"]) : i \in DOMAIN ts.rows} \ {NaN}

PctEq(a, b) == a = b \/ (a.den # 0 /\ b.den # 0 /\ a.num * b.den = b.num * a.den)

\* C14: in the table of compute_yoy_growth the first record has neither delta;
\* every later record has the absolute delta current - previous and the
\* percentage delta (current - previous) / previous * 100, which is missing,
\* never infinite, when previous is 0.
C14_YoyDeltas ==
    YoyReturned =>
        LET annual == yoy.rows
        IN  \A k \in DOMAIN annual :
              LET current == annual[k].Median_Price
                  pct == annual[k].YoY_Growth_Pct
              IN  IF k = 1
                  THEN annual[k].YoY_Growth_Amount = NaN /\ pct.nan
                  ELSE LET previous == annual[k - 1].Median_Price
                       IN  /\ annual[k].YoY_Growth_Amount = current - previous
                           /\ previous = 0 => pct.nan
                           /\ previous # 0 =>
                                 /\ ~pct.nan
                                 /\ pct.den # 0
                                 /\ PctEq(pct, Pct((current - previous) * 100, previous))

\* three years with the aggregates 4, 0, 4: the second record has the deltas
\* -4 and -100 %, the third has the delta 4 and no percentage
C14_Witness ==
    /\ YoyReturned
    /\ Len(yoy.rows) = 3
    /\ yoy.rows[1].Median_Price = 4
    /\ yoy.rows[2].Median_Price = 0
    /\ yoy.rows[2].YoY_Growth_Amount = -4
    /\ PctEq(yoy.rows[2].YoY_Growth_Pct, Pct(-100, 1))
    /\ yoy.rows[3].YoY_Growth_Amount = 4
    /\ yoy.rows[3].YoY_Growth_Pct.nan

Sign(n) == IF n > 0 THEN 1 ELSE IF n < 0 THEN -1 ELSE 0

\* the sign of a percentage that is not missing
PctSign(p) == Sign(p.num) * Sign(p.den)

\* C15 (as stated): for every two consecutive annual aggregates with a defined
\* percentage delta, the sign of the percentage delta is the sign of
\* current - previous, whatever the values, a negative previous included.
C15_SignConsistency ==
    YoyReturned =>
        \A k \in DOMAIN yoy.rows :
            (k > 1 /\ ~yoy.rows[k].YoY_Growth_Pct.nan) =>
                PctSign(yoy.rows[k].YoY_Growth_Pct)
                = Sign(yoy.rows[k].Median_Price - yoy.rows[k - 1].Median_Price)

\* C15 (amended): the sign of a defined percentage delta is the sign of
\* current - previous when previous is positive, and the opposite sign when
\* previous is negative.
C15_SignConsistencyPositiveBase ==
    YoyReturned =>
        \A k \in DOMAIN yoy.rows :
            (k > 1 /\ ~yoy.rows[k].YoY_Growth_Pct.nan) =>
                LET previous == yoy.rows[k - 1].Median_Price
                    delta == yoy.rows[k].Median_Price - previous
                IN  /\ previous > 0 => PctSign(yoy.rows[k].YoY_Growth_Pct) = Sign(delta)
                    /\ previous < 0 => PctSign(yoy.rows[k].YoY_Growth_Pct) = -Sign(delta)

\* a fall from a positive aggregate: both the delta and the percentage are
\* negative
C15_Witness ==
    /\ YoyReturned
    /\ Len(yoy.rows) >= 2
    /\ yoy.rows[1].Median_Price > 0
    /\ yoy.rows[2].Median_Price < yoy.rows[1].Median_Price
    /\ ~yoy.rows[2].YoY_Growth_Pct.nan
    /\ PctSign(yoy.rows[2].YoY_Growth_Pct) = -1

\* render_yoy_tab has returned for the selected suburb
YoyTabReturned == pc = "done"

\* the annual points of the selected suburb (none when there is no table)
AnnualPoints == IF yoy.none THEN <<>> ELSE yoy.rows

\* the precondition of the compound rate: two annual points or more, a
\* positive first value, a positive span of years
CagrPrecondition ==
    /\ Len(AnnualPoints) >= 2
    /\ AnnualPoints[1].Median_Price > 0
    /\ AnnualPoints[Len(AnnualPoints)].Year - AnnualPoints[1].Year > 0

\* the card shows a number
CagrReported == cards.shown /\ ~cards.cagr.nan
TotalGrowthReported == cards.shown /\ ~cards.total_growth.nan

\* C16 (as stated): CAGR and total growth are reported if and only if the
\* suburb has at least 2 annual points, a first annual value > 0 and
\* (last year - first year) > 0; otherwise they are unavailable.
C16_CagrPrecondition ==
    YoyTabReturned =>
        /\ CagrReported <=> CagrPrecondition
        /\ TotalGrowthReported <=> CagrPrecondition

\* C16 (amended): the Growth Summary is shown and total growth is reported if
\* and only if the precondition holds; CAGR is reported if and only if the
\* precondition holds and the last annual value is not negative over a span of
\* more than one year (it is then shown as not available); when the
\* precondition fails no card is shown, none with a 0.
C16_CagrPreconditionAndBase ==
    YoyTabReturned =>
        /\ cards.shown <=> CagrPrecondition
        /\ TotalGrowthReported <=> CagrPrecondition
        /\ CagrReported <=>
              /\ CagrPrecondition
              /\ ~(/\ AnnualPoints[Len(AnnualPoints)].Median_Price < 0
                    /\ AnnualPoints[Len(AnnualPoints)].Year - AnnualPoints[1].Year > 1)
        /\ ~CagrPrecondition => cards = NoCards

\* a single annual point: no card is shown
C16_Witness ==
    /\ YoyTabReturned
    /\ Len(AnnualPoints) = 1
    /\ AnnualPoints[1].Median_Price > 0
    /\ cards = NoCards

----------------------------------------------------------------------------
(* Exact arithmetic on large naturals, for the value of the compound rate:  *)
(* a number is the sequence of its digits in base 10000, lowest first       *)

RECURSIVE BigCarry(_, _)
\* the digits of the number whose (possibly too large) digits are s, plus c
BigCarry(s, c) ==
    IF s = <<>>
    THEN IF c = 0 THEN <<>> ELSE <<c % 10000>> \o BigCarry(<<>>, c \div 10000)
    ELSE <<(s[1] + c) % 10000>> \o BigCarry(Tail(s), (s[1] + c) \div 10000)

BigOfNat(n) == BigCarry(<<>>, n)

BigAdd(a, b) ==
    LET n == IF Len(a) >= Len(b) THEN Len(a) ELSE Len(b)
        Digit(x, i) == IF i <= Len(x) THEN x[i] ELSE 0
    IN  BigCarry([i \in 1..n |-> Digit(a, i) + Digit(b, i)], 0)

RECURSIVE BigMul(_, _)
BigMul(a, b) ==
    IF a = <<>> THEN <<>>
    ELSE BigAdd(BigCarry([i \in DOMAIN b |-> a[1] * b[i]], 0),
                IF Tail(a) = <<>> THEN <<>> ELSE <<0>> \o BigMul(Tail(a), b))

RECURSIVE BigPow(_, _)
BigPow(a, n) == IF n = 0 THEN <<1>> ELSE BigMul(a, BigPow(a, n - 1))

RECURSIVE BigStrip(_)
\* without the leading zero digits
BigStrip(a) ==
    IF a # <<>> /\ a[Len(a)] = 0 THEN BigStrip(SubSeq(a, 1, Len(a) - 1)) ELSE a

RECURSIVE BigLeqSameLen(_, _)
BigLeqSameLen(a, b) ==
    IF a = <<>> THEN TRUE
    ELSE IF a[Len(a)] # b[Len(b)] THEN a[Len(a)] < b[Len(b)]
    ELSE BigLeqSameLen(SubSeq(a, 1, Len(a) - 1), SubSeq(b, 1, Len(b) - 1))

BigLeq(a, b) ==
    LET x == BigStrip(a)
        y == BigStrip(b)
    IN  IF Len(x) # Len(y) THEN Len(x) < Len(y) ELSE BigLeqSameLen(x, y)

\* lo / 100 <= ((num / den) ^ (1 / root) - 1) * 100 < hi / 100, for a rate of
\* a base that is not negative: den * (10000 + lo) ^ root <= num * 10000 ^ root
\* < den * (10000 + hi) ^ root
RateWithin(r, lo, hi) ==
    LET scaled == BigMul(BigOfNat(r.num), BigPow(BigOfNat(10000), r.root))
        Bound(c) == BigMul(BigOfNat(r.den), BigPow(BigOfNat(10000 + c), r.root))
    IN  /\ ~r.nan
        /\ BigLeq(Bound(lo), scaled)
        /\ ~BigLeq(Bound(hi), scaled)

\* two fractions have the same value
RatioEq(a_num, a_den, b_num, b_den) ==
    \/ (a_num = b_num /\ a_den = b_den)
    \/ a_num * b_den = b_num * a_den

\* the annual points are those of the worked example
IsExample ==
    /\ Len(AnnualPoints) = 2
    /\ AnnualPoints[1].Year = 2019 /\ AnnualPoints[1].Median_Price = 500000
    /\ AnnualPoints[2].Year = 2025 /\ AnnualPoints[2].Median_Price = 650000

\* C17: when the precondition holds, the CAGR card holds
\* ((last / first) ^ (1 / span) - 1) * 100 with span = last year - first year
\* and the total growth card holds (last - first) / first * 100, over the first
\* and the last annual aggregate; for (2019, 500000), (2025, 650000) the CAGR
\* lies between 4.46 % and 4.47 % and the total growth is 30 %.
C17_CagrValue ==
    (YoyTabReturned /\ CagrPrecondition) =>
        LET first_price == AnnualPoints[1].Median_Price
            last_price == AnnualPoints[Len(AnnualPoints)].Median_Price
            n_years == AnnualPoints[Len(AnnualPoints)].Year - AnnualPoints[1].Year
        IN  /\ cards.shown
            /\ PctEq(cards.total_growth, Pct((last_price - first_price) * 100, first_price))
            /\ (last_price >= 0 \/ n_years = 1) =>
                  /\ ~cards.cagr.nan
                  /\ cards.cagr.root = n_years
                  /\ RatioEq(cards.cagr.num, cards.cagr.den, last_price, first_price)
            /\ last_price = first_price => RateWithin(cards.cagr, 0, 1)
            /\ IsExample =>
                  /\ RateWithin(cards.cagr, 446, 447)
                  /\ PctEq(cards.total_growth, Pct(30, 1))

\* the worked example: 500000 in 2019 and 650000 in 2025
C17_Witness ==
    /\ YoyTabReturned
    /\ IsExample
    /\ cards.shown
    /\ cards.cagr.root = 6
    /\ RateWithin(cards.cagr, 446, 447)
    /\ PctEq(cards.total_growth, Pct(30, 1))

----------------------------------------------------------------------------
(* Best and worst year *)

\* the annual points that have a defined percentage delta
DefinedDeltas == {k \in DOMAIN AnnualPoints : ~AnnualPoints[k].YoY_Growth_Pct.nan}

\* C18: a best (worst) year that is reported is an annual point of the suburb
\* with a defined percentage delta that no other defined delta exceeds (goes
\* below); the first annual point and a point with an undefined delta is
\* never reported, and without any defined delta no best or worst year is.
C18_BestWorstYear ==
    YoyTabReturned =>
        /\ cards.best_yr # NoRow =>
              \E k \in DefinedDeltas :
                  /\ k > 1
                  /\ cards.best_yr = AnnualPoints[k]
                  /\ \A j \in DefinedDeltas :
                        PctLeq(AnnualPoints[j].YoY_Growth_Pct, AnnualPoints[k].YoY_Growth_Pct)
        /\ cards.worst_yr # NoRow =>
              \E k \in DefinedDeltas :
                  /\ k > 1
                  /\ cards.worst_yr = AnnualPoints[k]
                  /\ \A j \in DefinedDeltas :
                        PctLeq(AnnualPoints[k].YoY_Growth_Pct, AnnualPoints[j].YoY_Growth_Pct)
        /\ DefinedDeltas = {} => (cards.best_yr = NoRow /\ cards.worst_yr = NoRow)
        /\ cards.shown => (cards.best_yr = NoRow <=> DefinedDeltas = {})
        /\ cards.shown => (cards.worst_yr = NoRow <=> DefinedDeltas = {})

\* three annual points, the last with an undefined delta (its previous value
\* is 0): the second is both the best and the worst year
C18_Witness ==
    /\ YoyTabReturned
    /\ Len(AnnualPoints) = 3
    /\ DefinedDeltas = {2}
    /\ AnnualPoints[2].Median_Price = 0
    /\ cards.shown
    /\ cards.best_yr = AnnualPoints[2]
    /\ cards.worst_yr = AnnualPoints[2]

\* C19: when some annual point has a defined percentage delta, the best and
\* the worst year are reported, also when CAGR is unavailable (a first annual
\* value that is 0 or negative).
C19_UnavailablePerMetric ==
    (YoyTabReturned /\ DefinedDeltas # {}) =>
        (cards.best_yr # NoRow /\ cards.worst_yr # NoRow)

----------------------------------------------------------------------------
(* The empty series, checked under SpecGrowth *)

\* the growth query has been made for the selected suburb
GrowthQueryMade ==
    \/ pc = "done"
    \/ (pc = "raised" /\ exc.at = "compute_yoy_growth")

\* the suburb has no observation (a label and a value), or none whose label
\* yields a year and whose value is present
NoSurvivingObservation ==
    \/ ~SeriesComplete
    \/ \A y \in YearsOfSeries : ValuesOfYear(y) = <<>>

\* C20: when the suburb has no observation, or none that survives parsing, the
\* growth query raises no error and reports that there is no series: no
\* annual points, no deltas, no CAGR.
C20_EmptySeriesIsValid ==
    (GrowthQueryMade /\ NoSurvivingObservation) =>
        /\ pc = "done"
        /\ AnnualPoints = <<>>
        /\ cards = NoCards
        /\ "No timeseries data available for year-to-year analysis." \in ui

----------------------------------------------------------------------------
(* The derived field, checked under SpecDerive *)

\* the dependency columns of Crime_Rate_Per_1000 are in the table
DependenciesPresent ==
    {"Total_Crime_Count", "G01_Population_Total"} \subseteq df.columns

\* the step of load_data that derives: no source supplied the field and its
\* dependencies are present
DeriveStep ==
    /\ pc = "derive"
    /\ "Crime_Rate_Per_1000" \notin df.columns
    /\ DependenciesPresent

\* the last step of load_data creates Crime_Rate_Per_1000 only in DeriveStep,
\* changes no other cell, and leaves a supplied field as it is
DerivedOnlyIfAbsent ==
    pc = "derive" =>
        /\ df'.columns = IF DeriveStep THEN df.columns \cup {"Crime_Rate_Per_1000"}
                         ELSE df.columns
        /\ Len(df'.rows) = Len(df.rows)
        /\ \A i \in DOMAIN df.rows : \A c \in df.columns : df'.rows[i][c] = df.rows[i][c]

\* C21: load_data computes Crime_Rate_Per_1000 only if no merged source
\* supplied a column of that name and both Total_Crime_Count and
\* G01_Population_Total are present; a supplied value is kept unchanged in
\* every row, and without a dependency column the field is not created.
C21_DerivedFieldPrecedence == [][DerivedOnlyIfAbsent]_vars

\* the risk source supplied the field for suburb "A" only and both
\* dependencies are present: the table returned holds the supplied value for
\* "A" and the missing one for "B", not the computed ones
C21_Witness ==
    /\ pc = "main_check"
    /\ DependenciesPresent
    /\ "Crime_Rate_Per_1000" \in df.columns
    /\ Len(df.rows) = 2
    /\ df.rows[1]["Crime_Rate_Per_1000"] = Tag("risk", 1)
    /\ df.rows[2]["Crime_Rate_Per_1000"] = NaN
    /\ df.rows[1]["G01_Population_Total"] = 1000
    /\ df.rows[1]["Total_Crime_Count"] = 3

\* each derived rate follows the guard: 0 for a population that is missing or
\* not greater than 0, count / population * 1000 for a population > 0 and a
\* present count
DerivedWithGuard ==
    DeriveStep =>
        \A i \in DOMAIN df.rows :
            LET count == df.rows[i]["Total_Crime_Count"]
                population == df.rows[i]["G01_Population_Total"]
                rate == df'.rows[i]["Crime_Rate_Per_1000"]
            IN  /\ (population = NaN \/ population <= 0) => rate = 0
                /\ (population # NaN /\ population > 0 /\ count # NaN) =>
                      (rate # NaN /\ rate * population = count * 1000)

\* C22: when Crime_Rate_Per_1000 is derived, every row whose population is 0,
\* not greater than 0 or missing gets the sentinel 0, and every row with
\* population > 0 and a present count gets count / population * 1000.
C22_DivisionGuard == [][DerivedWithGuard]_vars

\* the derived table: suburb "A" with population 0 and a count has the rate 0,
\* suburb "B" with 3 crimes in 1000 people has the rate 3
C22_Witness ==
    /\ pc = "main_check"
    /\ DependenciesPresent
    /\ "Crime_Rate_Per_1000" \in df.columns
    /\ Len(df.rows) = 2
    /\ df.rows[1]["G01_Population_Total"] = 0
    /\ df.rows[1]["Total_Crime_Count"] = 3
    /\ df.rows[1]["Crime_Rate_Per_1000"] = 0
    /\ df.rows[2]["G01_Population_Total"] = 1000
    /\ df.rows[2]["Total_Crime_Count"] = 3
    /\ df.rows[2]["Crime_Rate_Per_1000"] = 3

\* no derived rate is missing
DerivedNeverMissing ==
    DeriveStep =>
        \A i \in DOMAIN df'.rows : df'.rows[i]["Crime_Rate_Per_1000"] # NaN

\* C23: when Crime_Rate_Per_1000 is derived, no row of the returned table
\* holds a missing rate: every row gets a computed number or the sentinel 0,
\* also a row whose crime count or population is missing.
C23_NoMissingDerivedRate == [][DerivedNeverMissing]_vars

----------------------------------------------------------------------------
(* Properties of the landing dashboard and of the report lookup, checked
   under SpecTop *)

\* the leaderboards drawn, each with the field it ranks
Boards ==
    {b \in {[board |-> top.growth, field |-> "Price_Growth_Percent"],
            [board |-> top.risk, field |-> "Total_Risk_Score"]} : b.board.shown}

\* the position in the table of the first row of suburb s
TablePosition(s) ==
    CHOOSE i \in DOMAIN df.rows :
       /\ df.rows[i]["Suburb"] = s
       /\ \A j \in 1..(i - 1) : df.rows[j]["Suburb"] # s

\* no row of the board lacks a value of the ranked field
BoardNoMissing(b) ==
    \A i \in DOMAIN b.board.rows : b.board.rows[i][b.field] # NaN

\* the values of the ranked field never rise down the board
BoardDescending(b) ==
    \A i, j \in DOMAIN b.board.rows :
       (i < j /\ b.board.rows[i][b.field] # NaN /\ b.board.rows[j][b.field] # NaN)
          => b.board.rows[i][b.field] >= b.board.rows[j][b.field]

\* rows of equal value stand in the order they have in the table
BoardTiesInTableOrder(b) ==
    \A i, j \in DOMAIN b.board.rows :
       (i < j /\ b.board.rows[i][b.field] = b.board.rows[j][b.field])
          => TablePosition(b.board.rows[i]["Suburb"]) < TablePosition(b.board.rows[j]["Suburb"])

\* C24: a leaderboard of main has at most 10 rows, in descending order of its
\* field, none with a missing value of the field, rows of equal value in the
\* order of the table; built again on the unchanged table it is the same.
C24_TopN ==
    \A b \in Boards :
       /\ Len(b.board.rows) <= TopN
       /\ BoardDescending(b)
       /\ BoardNoMissing(b)
       /\ BoardTiesInTableOrder(b)
       /\ top.growth = top_growth(df)
       /\ top.risk = top_risk(df)

\* main has drawn the sidebar of a run
SidebarDrawn == pc \in {"landing", "map", "report", "report_chart", "report_yoy", "done"}

\* C25: the list of keys main offers is in ascending order without a
\* duplicate and holds the keys of the table; the lookup of a key of the
\* table gives a row of the table with that key, the lookup of any other key
\* gives no row but the not-found outcome; the report is for the key selected.
C25_KeysAndLookup ==
    (pc = "sidebar" \/ SidebarDrawn) =>
       LET keys == suburbs_list(df)
       IN  /\ \A i, j \in DOMAIN keys : i < j => Rank(keys[i]) < Rank(keys[j])
           /\ Range(keys) = KeySet(df)
           /\ (SidebarDrawn /\ widgets.search_input = <<>>) => widgets.selectbox.options = keys
           /\ \A k \in Range(Names) :
                 LET r == lookup(df, k)
                 IN  IF k \in KeySet(df)
                     THEN r.found /\ r.row \in Range(df.rows) /\ r.row["Suburb"] = k
                     ELSE ~r.found /\ r.row = NoData
           /\ pc \in {"report_chart", "report_yoy", "done"} =>
                 /\ row \in Range(df.rows)
                 /\ row["Suburb"] = selected
                 /\ "No data found for suburb" \notin ui

\* the report of a suburb of a table whose rows are not in the order of their
\* keys, and which lacks some name
C25_Witness ==
    /\ pc = "done"
    /\ row["Suburb"] = selected
    /\ Len(df.rows) >= 2
    /\ Rank(df.rows[1]["Suburb"]) > Rank(df.rows[2]["Suburb"])
    /\ widgets.selectbox.options = suburbs_list(df)
    /\ \E k \in Range(Names) : k \notin KeySet(df) /\ ~lookup(df, k).found

----------------------------------------------------------------------------
(* Properties of the queries across runs, checked under SpecGrowth *)

\* a query step leaves both tables as they were and gives the value of its
\* function on the table it was called on
QueriesReadOnly ==
    /\ pc = "report_chart" =>
          /\ ts' = ts /\ df' = df
          /\ chart' = create_price_chart(ts, row["Suburb"])
    /\ pc = "report_yoy" =>
          /\ ts' = ts /\ df' = df
          /\ yoy' = compute_yoy_growth(ts, row["Suburb"])

----------------------------------------------------------------------------
(* Properties of the deltas across gaps, checked under SpecAnnual *)

\* the years of the labels of the selected suburb's observations
YearsObserved ==
    {extract_year(r["Period"]) : r \in Range(RowsOfSuburb(ts, selected))} \ {NaN}

\* y1 < y2 are years with an aggregate, and no observation of the suburb is
\* of a year between them
ConsecutiveAvailable(y1, y2) ==
    /\ y1 < y2
    /\ ValuesOfYear(y1) # <<>>
    /\ ValuesOfYear(y2) # <<>>
    /\ \A y \in YearsObserved : ~(y1 < y /\ y < y2)

\* C27: when the suburb has aggregates for the years y1 < y2 and no
\* observation of a year between them, the record of y2 has the deltas of
\* y2's aggregate against y1's, whether y2 is the year after y1 or a later one.
C27_DeltasBetweenAvailableYears ==
    YoyReturned =>
        \A y1, y2 \in YearsObserved :
            ConsecutiveAvailable(y1, y2) =>
                \E k \in DOMAIN yoy.rows :
                    LET previous == MedianOf(ValuesOfYear(y1))
                        current == MedianOf(ValuesOfYear(y2))
                    IN  /\ yoy.rows[k].Year = y2
                        /\ yoy.rows[k].YoY_Growth_Amount = current - previous
                        /\ previous # 0 =>
                              PctEq(yoy.rows[k].YoY_Growth_Pct,
                                    Pct((current - previous) * 100, previous))

\* the suburb has observations of 2023 and 2025 and none of 2024: the record
\* of 2025 has the delta against 2023
C27_Witness ==
    /\ YoyReturned
    /\ YearsObserved = {2023, 2025}
    /\ ConsecutiveAvailable(2023, 2025)
    /\ MedianOf(ValuesOfYear(2023)) = -4
    /\ MedianOf(ValuesOfYear(2025)) = 4
    /\ Len(yoy.rows) = 2
    /\ yoy.rows[2].Year = 2025
    /\ yoy.rows[2].YoY_Growth_Amount = 8
    /\ PctEq(yoy.rows[2].YoY_Growth_Pct, Pct(-200, 1))

----------------------------------------------------------------------------
(* Properties of a source without rows, checked under Spec *)

\* the file read in this step exists and holds a header and no row
HeaderOnlyRead ==
    /\ pc \in OptionalSources
    /\ last'.file.status = "ok"
    /\ last'.file.header # {}
    /\ last'.file.rows = <<>>

\* the step of a source that has a header and no row does what the step of a
\* missing source does: load_data goes on with the next source, the table as
\* it was, columns and values
HeaderOnlySkipped ==
    HeaderOnlyRead =>
        /\ pc' \notin {pc, "raised"}
        /\ exc' = NoExc
        /\ df' = df

\* C28: an optional source that exists and has no data row is handled as a
\* missing one: its merge step is skipped and adds none of its columns to the
\* table.
C28_HeaderOnlySource == [][HeaderOnlySkipped]_vars

\* a source with a header and no row was read after the table had rows, the
\* header naming a column the table lacks; load_data has gone on
C28_Witness ==
    /\ last.src \in OptionalSources
    /\ last.file.status = "ok"
    /\ last.file.rows = <<>>
    /\ last.file.header \ df.columns # {}
    /\ pc \in OptionalSources \cup {"ts"}
    /\ ~empty(df)

----------------------------------------------------------------------------
(* Properties of the session, checked under SpecSession *)

\* the map step meets a click whose identifier is the one of the session
HandledClickSeen ==
    /\ pc = "map"
    /\ widgets.last_clicked # NoClick
    /\ click_id(widgets.last_clicked) = session.last_click_id

\* the map step ends the run and starts another (st.rerun)
Reruns == pc = "map" /\ pc' = "main_check"

\* what the map step may do with the click st_folium reports
ClickHandledOnce ==
    /\ HandledClickSeen => (session' = session /\ ~Reruns)
    /\ (pc = "map" /\ session' # session) =>
          /\ nearest(Coords, widgets.last_clicked) \in KeySet(df)
          /\ session'.last_click_id = click_id(widgets.last_clicked)
          /\ session'.last_click_id # session.last_click_id
          /\ session'.map_suburb = nearest(Coords, widgets.last_clicked)
          /\ Reruns
    /\ (session # NoSession /\ session'.last_click_id # session.last_click_id) => pc = "map"
    /\ Reruns => session' # session
    /\ (pc = "map" /\ reruns = 1) => ~Reruns
    /\ reruns' <= 1

\* C29: a click whose identifier is the session's last_click_id changes no
\* session state and starts no rerun; last_click_id changes only in the map
\* step, together with map_suburb being set, and only when the suburb nearest
\* to the click is a key of the table; a click of the user starts at most one
\* rerun, and the run that follows it starts none.
C29_ClickHandledOnce == [][ClickHandledOnce]_vars

\* the run started by st.rerun after a click near B has ended, the click
\* recorded in the session, and no further rerun was started
C29_Witness ==
    /\ pc = "done"
    /\ reruns = 1
    /\ widgets.last_clicked = [lat |-> 98, lng |-> 0]
    /\ session.last_click_id = click_id(widgets.last_clicked)
    /\ session.map_suburb = "B"
    /\ selected = "B"

\* map_suburb is None or a key of the table
MapSuburbValid ==
    session # NoSession => session.map_suburb \in {NoSuburb} \cup KeySet(df)

\* once the sidebar is drawn, map_suburb is the suburb selected or was reset
\* to None
MapSuburbReset ==
    SidebarDrawn => session.map_suburb \in {NoSuburb, selected}

\* the selectbox offers at least one suburb, and each one it offers is a key
\* of the table; with a search that matches no suburb it offers them all
OfferedNotEmpty ==
    SidebarDrawn =>
        /\ widgets.selectbox.options # <<>>
        /\ Range(widgets.selectbox.options) \subseteq KeySet(df)
        /\ selected \in Range(widgets.selectbox.options)
        /\ found(df, widgets.search_input) = <<>> =>
              widgets.selectbox.options = suburbs_list(df)

\* this run was started by st.rerun after the click the browser reports, has
\* drawn its sidebar, and the search box does not exclude the suburb clicked
RunAfterClickOn(s) ==
    /\ SidebarDrawn
    /\ reruns = 1
    /\ s = nearest(Coords, widgets.last_clicked)
    /\ s \in Range(matches(df, widgets.search_input))

\* the run that follows a handled click on a suburb reports on that suburb
ReportFollowsClick ==
    \A s \in KeySet(df) :
        RunAfterClickOn(s) => (selected = s /\ (pc = "done" => row["Suburb"] = s))

\* C30: map_suburb is always None or a key of the loaded table; a sidebar
\* step that selects another suburb than map_suburb resets map_suburb to
\* None; the list offered for selection is never empty; and the run after a
\* handled map click on suburb S, S not excluded by the search, reports on S.
C30_SessionSelection ==
    /\ MapSuburbValid
    /\ MapSuburbReset
    /\ OfferedNotEmpty
    /\ ReportFollowsClick

====
